---------------------------- MODULE Spec2Model ----------------------------
(***************************************************************************)
(* A model of the PII anonymisation and text normalisation pipeline of     *)
(* talent-map-ai: PrivacyAwareAnonymizer, TextNormalizer and               *)
(* PrivacyAwareNormalizer.  A text is a sequence of one-character strings. *)
(* The regular expressions of the source are written as pattern trees and  *)
(* matched by a backtracking matcher that follows the rules of Python's    *)
(* re module (leftmost match, alternatives in order, greedy repetition).   *)
(***************************************************************************)
EXTENDS Integers, Sequences, FiniteSets, TLC

\* ------------------------------------------------------------ characters

Digit == {"0","1","2","3","4","5","6","7","8","9"}

UpperSeq == <<"A","B","C","D","E","F","G","H","I","J","K","L","M","N","O","P",
              "Q","R","S","T","U","V","W","X","Y","Z","Á","É","Í","Ó","Ú","Ñ">>

\* the letters str.lower() gives for them; the accented letters are those of
\* the Spanish keywords and names
LowerSeq == <<"a","b","c","d","e","f","g","h","i","j","k","l","m","n","o","p",
              "q","r","s","t","u","v","w","x","y","z","á","é","í","ó","ú","ñ">>

Range(f) == {f[i] : i \in DOMAIN f}

AsciiUpper == {c \in Range(UpperSeq) : c \notin {"Á","É","Í","Ó","Ú","Ñ"}}

AsciiLower == {c \in Range(LowerSeq) : c \notin {"á","é","í","ó","ú","ñ"}}

AsciiLetter == AsciiUpper \cup AsciiLower

Letter == Range(UpperSeq) \cup Range(LowerSeq)

\* \w of a str pattern: Unicode letters, digits and the underscore
WordChar == Letter \cup Digit \cup {"_"}

\* \s, and the characters str.strip() and str.split() treat as whitespace
Space == {" ", "\t", "\n", "\r"}

\* str.lower() and str.upper() on one character
LowerChar(c) ==
    IF \E i \in DOMAIN UpperSeq : UpperSeq[i] = c
    THEN LowerSeq[CHOOSE i \in DOMAIN UpperSeq : UpperSeq[i] = c]
    ELSE c

UpperChar(c) ==
    IF \E i \in DOMAIN LowerSeq : LowerSeq[i] = c
    THEN UpperSeq[CHOOSE i \in DOMAIN LowerSeq : LowerSeq[i] = c]
    ELSE c

\* ------------------------------------------------------------ str methods

Min(ns) == CHOOSE n \in ns : \A m \in ns : n <= m

Max(ns) == CHOOSE n \in ns : \A m \in ns : n >= m

\* the k-th smallest element of a set of numbers
Nth(ns, k) == CHOOSE n \in ns : Cardinality({m \in ns : m < n}) = k - 1

\* str.lower()
Lower(s) == [i \in 1..Len(s) |-> LowerChar(s[i])]

\* sub in s
StartsAt(s, sub, i) ==
    /\ i + Len(sub) - 1 <= Len(s)
    /\ \A k \in 1..Len(sub) : s[i + k - 1] = sub[k]

Contains(s, sub) == \E i \in 1..(Len(s) - Len(sub) + 1) : StartsAt(s, sub, i)

\* s.strip()
Strip(s) ==
    LET keep == {i \in 1..Len(s) : s[i] \notin Space}
    IN  IF keep = {} THEN <<>> ELSE SubSeq(s, Min(keep), Max(keep))

\* s.split(sep) for a one-character separator: the pieces between the separators
Split(s, sep) ==
    LET at == {i \in 1..Len(s) : s[i] = sep}
        n == Cardinality(at)
        from(k) == IF k = 1 THEN 1 ELSE Nth(at, k - 1) + 1
        to(k) == IF k = n + 1 THEN Len(s) ELSE Nth(at, k) - 1
    IN  [k \in 1..(n + 1) |-> SubSeq(s, from(k), to(k))]

\* sep.join(parts)
RECURSIVE Join(_, _)
Join(parts, sep) ==
    IF parts = <<>> THEN <<>>
    ELSE IF Len(parts) = 1 THEN parts[1]
    ELSE parts[1] \o sep \o Join(Tail(parts), sep)

\* s.split(): the words between runs of whitespace
Words(s) ==
    LET first == {i \in 1..Len(s) : s[i] \notin Space /\ (i = 1 \/ s[i - 1] \in Space)}
        last == {i \in 1..Len(s) :
                    s[i] \notin Space /\ (i = Len(s) \/ s[i + 1] \in Space)}
    IN  [k \in 1..Cardinality(first) |-> SubSeq(s, Nth(first, k), Nth(last, k))]

\* the string as it is, in place of str.title()
Title_kept(s) == s

\* str.title(): a letter after a non-letter is upper-cased, every other one lower-cased
Title(s) ==
    [i \in 1..Len(s) |->
        IF i = 1 \/ s[i - 1] \notin Letter THEN UpperChar(s[i]) ELSE LowerChar(s[i])]

\* ------------------------------------------------------------ patterns

\* a literal string; with ci, under re.IGNORECASE
Str(w) == [t |-> "lit", w |-> w, ci |-> FALSE]

StrI(w) == [t |-> "lit", w |-> w, ci |-> TRUE]

\* [S]{lo,hi}, greedy or lazy: a run of characters of one set; open: no upper end
Run(S, lo, hi, open, lazy) ==
    [t |-> "run", s |-> S, neg |-> FALSE, lo |-> lo, hi |-> hi, open |-> open,
     lazy |-> lazy]

\* the same for the characters not in S
NotRun(S, lo, hi, open, lazy) ==
    [t |-> "run", s |-> S, neg |-> TRUE, lo |-> lo, hi |-> hi, open |-> open,
     lazy |-> lazy]

\* [S], [^S]
Cls(S) == Run(S, 1, 1, FALSE, FALSE)

NotCls(S) == NotRun(S, 1, 1, FALSE, FALSE)

\* [S]*, [S]+, [S]?, [S]{lo,hi}, [S]{n,}
Star(S) == Run(S, 0, 0, TRUE, FALSE)

Plus(S) == Run(S, 1, 0, TRUE, FALSE)

Opt(S) == Run(S, 0, 1, FALSE, FALSE)

Between(S, lo, hi) == Run(S, lo, hi, FALSE, FALSE)

AtLeast(S, n) == Run(S, n, 0, TRUE, FALSE)

\* the patterns of a sequence one after the other
Cat(rs) == [t |-> "cat", rs |-> rs]

\* a|b|...: the first alternative that lets the rest of the pattern match
Alt(rs) == [t |-> "alt", rs |-> rs]

\* (?:r){lo,hi}, greedy, for a group r
Rep(r, lo, hi) == [t |-> "rep", r |-> r, lo |-> lo, hi |-> hi]

\* (?:r)*, greedy
StarOf(r) == [t |-> "star", r |-> r]

\* (?:r)?
OptOf(r) == Rep(r, 0, 1)

\* \b
WordB == [t |-> "wordb"]

\* (?=r)
Ahead(r) == [t |-> "ahead", r |-> r]

\* (?<=[S])
Behind(S) == [t |-> "behind", s |-> S]

\* ^ and $ without re.MULTILINE
Eol == [t |-> "eol"]

IsWordAt(s, i) == i >= 1 /\ i <= Len(s) /\ s[i] \in WordChar

\* the literal w stands at position i of s
LitAt(s, w, ci, i) ==
    /\ i + Len(w) - 1 <= Len(s)
    /\ \A k \in 1..Len(w) :
          IF ci THEN LowerChar(s[i + k - 1]) = LowerChar(w[k]) ELSE s[i + k - 1] = w[k]

\* how many characters from position i on are in the set (not in it, with neg)
RunLen(s, S, neg, i) ==
    LET stop == {j \in i..Len(s) : (s[j] \in S) = neg}
    IN  IF stop = {} THEN Len(s) + 1 - i ELSE Min(stop) - i

\* Match(rs, s, i): the patterns rs matched one after the other at position i
\* of s; the position after the match, or 0 when there is none.  The order
\* of the attempts is the order of a backtracking matcher: a greedy run takes
\* the longest length that lets the rest match, a lazy one the shortest.
RECURSIVE Match(_, _, _)
Match(rs, s, i) ==
    IF rs = <<>> THEN i
    ELSE
    LET r == Head(rs)
        k == Tail(rs)
    IN  CASE r.t = "lit" ->
                IF LitAt(s, r.w, r.ci, i) THEN Match(k, s, i + Len(r.w)) ELSE 0
          [] r.t = "run" ->
                LET n == RunLen(s, r.s, r.neg, i)
                    top == IF r.open \/ n < r.hi THEN n ELSE r.hi
                    ok == {m \in r.lo..top : Match(k, s, i + m) # 0}
                IN  IF r.lo = top THEN Match(k, s, i + top)
                    ELSE IF ok = {} THEN 0
                    ELSE Match(k, s, i + (IF r.lazy THEN Min(ok) ELSE Max(ok)))
          [] r.t = "cat" -> Match(r.rs \o k, s, i)
          [] r.t = "alt" ->
                IF r.rs = <<>> THEN 0
                ELSE LET e == Match(<<Head(r.rs)>> \o k, s, i)
                     IN  IF e # 0 THEN e ELSE Match(<<Alt(Tail(r.rs))>> \o k, s, i)
          [] r.t = "rep" ->
                IF r.lo > 0
                THEN Match(<<r.r, Rep(r.r, r.lo - 1, r.hi - 1)>> \o k, s, i)
                ELSE IF r.hi = 0 THEN Match(k, s, i)
                ELSE LET e == Match(<<r.r, Rep(r.r, 0, r.hi - 1)>> \o k, s, i)
                     IN  IF e # 0 THEN e ELSE Match(k, s, i)
          [] r.t = "star" ->
                LET e == Match(<<r.r, r>> \o k, s, i)
                IN  IF e # 0 THEN e ELSE Match(k, s, i)
          [] r.t = "wordb" ->
                IF IsWordAt(s, i - 1) # IsWordAt(s, i) THEN Match(k, s, i) ELSE 0
          [] r.t = "ahead" ->
                IF Match(<<r.r>>, s, i) # 0 THEN Match(k, s, i) ELSE 0
          [] r.t = "behind" ->
                IF i > 1 /\ s[i - 1] \in r.s THEN Match(k, s, i) ELSE 0
          [] r.t = "eol" ->
                IF i = Len(s) + 1 \/ (i = Len(s) /\ s[i] = "\n")
                THEN Match(k, s, i) ELSE 0

\* the positions of s where r matches (no pattern of the source matches the
\* empty string)
Starts(r, s) == {i \in 1..Len(s) : Match(<<r>>, s, i) > i}

\* re.search(r, s) is not None
Search(r, s) == Starts(r, s) # {}

\* re.sub(r, repl, s): every match, leftmost first and not overlapping, is
\* replaced by repl
RECURSIVE SubFrom(_, _, _, _, _)
SubFrom(r, repl, s, starts, i) ==
    LET later == {j \in starts : j >= i}
    IN  IF later = {} THEN SubSeq(s, i, Len(s))
        ELSE LET j == Min(later)
             IN  SubSeq(s, i, j - 1) \o repl
                   \o SubFrom(r, repl, s, starts, Match(<<r>>, s, j))

Sub(r, repl, s) == SubFrom(r, repl, s, Starts(r, s), 1)

\* re.findall(r, s): the matched substrings, leftmost first and not overlapping
RECURSIVE FindAllFrom(_, _, _, _)
FindAllFrom(r, s, starts, i) ==
    LET later == {j \in starts : j >= i}
    IN  IF later = {} THEN <<>>
        ELSE LET j == Min(later)
                 e == Match(<<r>>, s, j)
             IN  <<SubSeq(s, j, e - 1)>> \o FindAllFrom(r, s, starts, e)

FindAll(r, s) == FindAllFrom(r, s, Starts(r, s), 1)

\* s.count(sub)
Count(s, sub) == Len(FindAll(Str(sub), s))

\* ------------------------------------------------------------ PrivacyAwareAnonymizer

PLACEHOLDER_EMAIL == <<"[","E","M","A","I","L","]">>

PLACEHOLDER_PHONE == <<"[","P","H","O","N","E","]">>

PLACEHOLDER_URL == <<"[","U","R","L","]">>

PLACEHOLDER_SOCIAL == <<"[","S","O","C","I","A","L","]">>

PLACEHOLDER_ID == <<"[","I","D","]">>

PLACEHOLDER_NAME == <<"[","N","A","M","E","]">>

PLACEHOLDER_EDUCATION == <<"[","E","D","U","C","A","T","I","O","N","]">>

PLACEHOLDER_ADDRESS == <<"[","A","D","D","R","E","S","S","]">>

PLACEHOLDER_AGE == <<"[","A","G","E","]">>

\* r'\b[A-Z0-9._%+\-]+@[A-Z0-9.\-]+\.[A-Z]{2,}\b', re.IGNORECASE
email_pattern ==
    Cat(<<WordB,
          Plus(AsciiLetter \cup Digit \cup {".", "_", "%", "+", "-"}),
          Cls({"@"}),
          Plus(AsciiLetter \cup Digit \cup {".", "-"}),
          Cls({"."}),
          AtLeast(AsciiLetter, 2),
          WordB>>)

\* r'https?://\S+|www\.\S+', re.IGNORECASE
url_pattern ==
    Alt(<<Cat(<<StrI(<<"h","t","t","p">>), Opt({"s", "S"}), Str(<<":","/","/">>), NotRun(Space, 1, 0, TRUE, FALSE)>>),
          Cat(<<StrI(<<"w","w","w">>), Cls({"."}), NotRun(Space, 1, 0, TRUE, FALSE)>>)>>)

\* r'(?<=\s)@\w+(?=\s|$)', r'linkedin\.com/in/[\w-]+', r'github\.com/[\w-]+',
\* r'twitter\.com/[\w-]+', all re.IGNORECASE
social_patterns ==
    <<Cat(<<Behind(Space), Cls({"@"}), Plus(WordChar), Ahead(Alt(<<Cls(Space), Eol>>))>>),
      Cat(<<StrI(<<"l","i","n","k","e","d","i","n",".","c","o","m","/","i","n","/">>), Plus(WordChar \cup {"-"})>>),
      Cat(<<StrI(<<"g","i","t","h","u","b",".","c","o","m","/">>), Plus(WordChar \cup {"-"})>>),
      Cat(<<StrI(<<"t","w","i","t","t","e","r",".","c","o","m","/">>), Plus(WordChar \cup {"-"})>>)>>

\* r'\b\d{9,}\b' and r'\b[A-Z]{2,3}\d{6,}\b'
id_patterns ==
    <<Cat(<<WordB, AtLeast(Digit, 9), WordB>>),
      Cat(<<WordB, Between(AsciiUpper, 2, 3), AtLeast(Digit, 6), WordB>>)>>

\* r'\b\d{1,2}\s*(?:years?\s+old|a[ñn]os?)\b', r'\b(?:age|edad):\s*\d{1,2}\b',
\* r'\bborn\s+(?:in|on)\s+\d{4}\b', r'\bnacid[oa]\s+(?:en|el)\s+\d{4}\b',
\* all re.IGNORECASE
age_patterns ==
    <<Cat(<<WordB, Between(Digit, 1, 2), Star(Space),
            Alt(<<Cat(<<StrI(<<"y","e","a","r">>), Opt({"s", "S"}), Plus(Space), StrI(<<"o","l","d">>)>>),
                  Cat(<<Cls({"a", "A"}), Cls({"ñ", "Ñ", "n", "N"}), Cls({"o", "O"}), Opt({"s", "S"})>>)>>),
            WordB>>),
      Cat(<<WordB, Alt(<<StrI(<<"a","g","e">>), StrI(<<"e","d","a","d">>)>>), Cls({":"}), Star(Space),
            Between(Digit, 1, 2), WordB>>),
      Cat(<<WordB, StrI(<<"b","o","r","n">>), Plus(Space), Alt(<<StrI(<<"i","n">>), StrI(<<"o","n">>)>>),
            Plus(Space), Between(Digit, 4, 4), WordB>>),
      Cat(<<WordB, StrI(<<"n","a","c","i","d">>), Cls({"o", "O", "a", "A"}), Plus(Space),
            Alt(<<StrI(<<"e","n">>), StrI(<<"e","l">>)>>), Plus(Space), Between(Digit, 4, 4), WordB>>)>>

\* r'\b(?:male|female|hombre|mujer|masculino|femenino|género|gender):\s*\w+\b'
\* and r'\b(?:sex|sexo):\s*\w+\b', re.IGNORECASE
gender_patterns ==
    <<Cat(<<WordB,
            Alt(<<StrI(<<"m","a","l","e">>), StrI(<<"f","e","m","a","l","e">>), StrI(<<"h","o","m","b","r","e">>),
                  StrI(<<"m","u","j","e","r">>), StrI(<<"m","a","s","c","u","l","i","n","o">>), StrI(<<"f","e","m","e","n","i","n","o">>),
                  StrI(<<"g","é","n","e","r","o">>), StrI(<<"g","e","n","d","e","r">>)>>),
            Cls({":"}), Star(Space), Plus(WordChar), WordB>>),
      Cat(<<WordB, Alt(<<StrI(<<"s","e","x">>), StrI(<<"s","e","x","o">>)>>),
            Cls({":"}), Star(Space), Plus(WordChar), WordB>>)>>

\* r'\b(?:single|married|divorced|casad[oa]|solter[oa]|divorciad[oa]|viud[oa])\b'
\* and r'\b(?:marital status|estado civil):\s*\w+\b', re.IGNORECASE
marital_patterns ==
    <<Cat(<<WordB,
            Alt(<<StrI(<<"s","i","n","g","l","e">>), StrI(<<"m","a","r","r","i","e","d">>), StrI(<<"d","i","v","o","r","c","e","d">>),
                  Cat(<<StrI(<<"c","a","s","a","d">>), Cls({"o", "O", "a", "A"})>>),
                  Cat(<<StrI(<<"s","o","l","t","e","r">>), Cls({"o", "O", "a", "A"})>>),
                  Cat(<<StrI(<<"d","i","v","o","r","c","i","a","d">>), Cls({"o", "O", "a", "A"})>>),
                  Cat(<<StrI(<<"v","i","u","d">>), Cls({"o", "O", "a", "A"})>>)>>),
            WordB>>),
      Cat(<<WordB, Alt(<<StrI(<<"m","a","r","i","t","a","l"," ","s","t","a","t","u","s">>), StrI(<<"e","s","t","a","d","o"," ","c","i","v","i","l">>)>>),
            Cls({":"}), Star(Space), Plus(WordChar), WordB>>)>>

\* the keywords that mark a line as naming an institution
university_keywords ==
    { <<"u","n","i","v","e","r","s","i","t","y">>, <<"u","n","i","v","e","r","s","i","d","a","d">>, <<"c","o","l","l","e","g","e">>, <<"i","n","s","t","i","t","u","t","o">>, <<"i","n","s","t","i","t","u","t","e">>,
      <<"s","c","h","o","o","l">>, <<"e","s","c","u","e","l","a">>, <<"a","c","a","d","e","m","y">>, <<"a","c","a","d","e","m","i","a">>, <<"p","o","l","y","t","e","c","h","n","i","c">>,
      <<"p","o","l","i","t","é","c","n","i","c","o">> }

\* the degree keywords, in the order of the list
degree_keywords ==
    << <<"b","a","c","h","e","l","o","r">>, <<"m","a","s","t","e","r">>, <<"p","h","d">>, <<"d","o","c","t","o","r","a","t","e">>, <<"l","i","c","e","n","c","i","a","t","u","r","a">>,
       <<"m","a","e","s","t","r","í","a">>, <<"d","o","c","t","o","r","a","d","o">>, <<"i","n","g","e","n","i","e","r","í","a">>, <<"e","n","g","i","n","e","e","r","i","n","g">> >>

\* re.sub with each pattern of a list in turn
RECURSIVE SubAll(_, _, _)
SubAll(patterns, repl, text) ==
    IF patterns = <<>> THEN text
    ELSE SubAll(Tail(patterns), repl, Sub(Head(patterns), repl, text))

\* the substitution stopping after the first match
_remove_emails_first(text) ==
    LET starts == Starts(email_pattern, text)
    IN  IF starts = {} THEN text
        ELSE SubFrom(email_pattern, PLACEHOLDER_EMAIL, text, {Min(starts)}, 1)

_remove_emails(text) == Sub(email_pattern, PLACEHOLDER_EMAIL, text)

\* re.sub(r'[()\-.]', ' ', result): the text handed to PhoneNumberMatcher
phone_normalized(text) == Sub(Cls({"(", ")", "-", "."}), <<" ">>, text)

\* re.sub(re.escape(number), PLACEHOLDER_PHONE, result) for each found number
RECURSIVE replace_found(_, _)
replace_found(found_numbers, result) ==
    IF found_numbers = <<>> THEN result
    ELSE replace_found(Tail(found_numbers),
                       Sub(Str(Head(found_numbers)), PLACEHOLDER_PHONE, result))

\* r'(?:\+?\d{1,3}[\s\-.])?(?:\(?\d{2,4}\)?[\s\-.]?){2,4}\d{2,4}(?=\s|$)'
phone_regex ==
    Cat(<<OptOf(Cat(<<Opt({"+"}), Between(Digit, 1, 3), Cls(Space \cup {"-", "."})>>)),
          Rep(Cat(<<Opt({"("}), Between(Digit, 2, 4), Opt({")"}),
                    Opt(Space \cup {"-", "."})>>), 2, 4),
          Between(Digit, 2, 4),
          Ahead(Alt(<<Cls(Space), Eol>>))>>)

\* the guard without re.IGNORECASE
phone_guard_case_sensitive ==
    Cat(<<WordB,
          Alt(<<Str(<<"p","y","t","h","o","n">>), Str(<<"a","w","s">>), Str(<<"e","c","2">>), Str(<<"m","i","c","r","o">>),
                Str(<<"v","e","r","s","i","o","n">>)>>),
          WordB>>)

\* r'\b(?:python|aws|ec2|micro|version)\b', re.IGNORECASE
phone_guard ==
    Cat(<<WordB,
          Alt(<<StrI(<<"p","y","t","h","o","n">>), StrI(<<"a","w","s">>), StrI(<<"e","c","2">>), StrI(<<"m","i","c","r","o">>),
                StrI(<<"v","e","r","s","i","o","n">>)>>),
          WordB>>)

\* the loop over result.split('\n') with the fallback pattern
phone_fallback_line(line) ==
    IF ~Search(phone_guard, line) THEN Sub(phone_regex, PLACEHOLDER_PHONE, line)
    ELSE line

phone_fallback(result) ==
    LET lines == Split(result, "\n")
    IN  Join([i \in 1..Len(lines) |-> phone_fallback_line(lines[i])], <<"\n">>)

_remove_urls(text) == Sub(url_pattern, PLACEHOLDER_URL, text)

_remove_social_media(text) == SubAll(social_patterns, PLACEHOLDER_SOCIAL, text)

_remove_id_numbers(text) == SubAll(id_patterns, PLACEHOLDER_ID, text)

\* r'\b\d+\s+[A-Z][a-z]+\s+(?:Street|St|Avenue|Ave|Road|Rd|Boulevard|Blvd|Calle|
\* Avenida|Carrera)\b', re.IGNORECASE
address_pattern ==
    Cat(<<WordB, Plus(Digit), Plus(Space), Cls(AsciiLetter), Plus(AsciiLetter), Plus(Space),
          Alt(<<StrI(<<"S","t","r","e","e","t">>), StrI(<<"S","t">>), StrI(<<"A","v","e","n","u","e">>), StrI(<<"A","v","e">>),
                StrI(<<"R","o","a","d">>), StrI(<<"R","d">>), StrI(<<"B","o","u","l","e","v","a","r","d">>), StrI(<<"B","l","v","d">>),
                StrI(<<"C","a","l","l","e">>), StrI(<<"A","v","e","n","i","d","a">>), StrI(<<"C","a","r","r","e","r","a">>)>>),
          WordB>>)

\* r'\b\d{5}(?:-\d{4})?\b'
zip_pattern ==
    Cat(<<WordB, Between(Digit, 5, 5), OptOf(Cat(<<Cls({"-"}), Between(Digit, 4, 4)>>)), WordB>>)

_remove_addresses(text) ==
    Sub(zip_pattern, <<>>, Sub(address_pattern, PLACEHOLDER_ADDRESS, text))

_remove_age_references(text) == SubAll(age_patterns, PLACEHOLDER_AGE, text)

\* the gender stage left out
_remove_gender_references_skipped(text) == text

_remove_gender_references(text) == SubAll(gender_patterns, <<>>, text)

_remove_marital_status(text) == SubAll(marital_patterns, <<>>, text)

\* the body of the loop of _anonymize_education for one line
education_line(line) ==
    LET line_lower == Lower(line)
        contains_university ==
            \E keyword \in university_keywords : Contains(line_lower, keyword)
        kept == SelectSeq(degree_keywords, LAMBDA kw : Contains(line_lower, kw))
        preserved_parts == [i \in 1..Len(kept) |-> Title(kept[i])]
    IN  IF contains_university
        THEN IF preserved_parts # <<>> THEN Join(preserved_parts, <<" ">>)
             ELSE PLACEHOLDER_EDUCATION
        ELSE line

_anonymize_education(text) ==
    LET lines == Split(text, "\n")
    IN  Join([i \in 1..Len(lines) |-> education_line(lines[i])], <<"\n">>)

\* the body of the loop of _remove_personal_names for line i (counted from 0);
\* the label pattern is
\* r'\b(?:name|nombre):\s*[A-Z][a-z]+(?:\s+[A-Z][a-z]+)*\b', re.IGNORECASE
name_line(i, line) ==
    LET words == Words(line)
        stop_words == { <<"s","u","m","m","a","r","y">>, <<"p","r","o","f","i","l","e">>, <<"s","k","i","l","l","s">> }
        label ==
            Cat(<<WordB, Alt(<<StrI(<<"n","a","m","e">>), StrI(<<"n","o","m","b","r","e">>)>>), Cls({":"}), Star(Space),
                  Cls(AsciiLetter), Plus(AsciiLetter),
                  StarOf(Cat(<<Plus(Space), Cls(AsciiLetter), Plus(AsciiLetter)>>)),
                  WordB>>)
    IN  IF \E token \in {PLACEHOLDER_EMAIL, PLACEHOLDER_PHONE, PLACEHOLDER_SOCIAL,
                          PLACEHOLDER_URL} : Contains(line, token)
        THEN line
        ELSE IF /\ i < 3
                /\ Len(words) <= 4
                /\ ~\E k \in 1..Len(words) : Lower(words[k]) \in stop_words
        THEN PLACEHOLDER_NAME
        ELSE Sub(label, PLACEHOLDER_NAME, line)

_remove_personal_names(text) ==
    LET lines == Split(text, "\n")
    IN  Join([i \in 1..Len(lines) |-> name_line(i - 1, lines[i])], <<"\n">>)

\* the cleanup with the first substitution, of the runs of spaces and tabs,
\* left out
_cleanup_formatting_spaces_kept(text) ==
    LET t2 == Sub(AtLeast({"\n"}, 3), <<"\n", "\n">>, text)
        t3 == Sub(Cat(<<Cls({"\n"}), Star(Space), Cls({"["}), Plus(WordChar), Cls({"]"}), Star(Space),
                        Cls({"\n"})>>), <<"\n">>, t2)
    IN  Sub(Cat(<<Cls({"\n"}), Plus(Space), Cls({"\n"})>>), <<"\n", "\n">>, t3)

\* r'[ \t]+' -> ' ', r'\n{3,}' -> '\n\n', r'\n\s*\[\w+]\s*\n' -> '\n',
\* r'\n\s+\n' -> '\n\n'
_cleanup_formatting(text) ==
    LET t1 == Sub(Plus({" ", "\t"}), <<" ">>, text)
        t2 == Sub(AtLeast({"\n"}, 3), <<"\n", "\n">>, t1)
        t3 == Sub(Cat(<<Cls({"\n"}), Star(Space), Cls({"["}), Plus(WordChar), Cls({"]"}), Star(Space),
                        Cls({"\n"})>>), <<"\n">>, t2)
    IN  Sub(Cat(<<Cls({"\n"}), Plus(Space), Cls({"\n"})>>), <<"\n", "\n">>, t3)

\* ------------------------------------------------------------ TextNormalizer

\* text.replace("\r\n", "\n").replace("\r", "\n")
_normalize_line_breaks(text) ==
    Sub(Cls({"\r"}), <<"\n">>, Sub(Str(<<"\r", "\n">>), <<"\n">>, text))

\* r'[ \t]+' -> ' ', then r' *\n *' -> '\n'
_remove_extra_whitespace(text) ==
    Sub(Cat(<<Star({" "}), Cls({"\n"}), Star({" "})>>), <<"\n">>,
        Sub(Plus({" ", "\t"}), <<" ">>, text))

\* r"\s*https?://[^\s]+\s*" -> " ", then strip()
norm_url_pattern ==
    Cat(<<Star(Space), Str(<<"h","t","t","p">>), Opt({"s"}), Str(<<":","/","/">>),
          NotRun(Space, 1, 0, TRUE, FALSE), Star(Space)>>)

norm_remove_urls(text) == Strip(Sub(norm_url_pattern, <<" ">>, text))

\* r"\s*\b[A-Za-z0-9._%+-]+@[A-Za-z0-9.-]+\.[A-Za-z]{2,}\b\s*" -> " ", then strip()
norm_email_pattern ==
    Cat(<<Star(Space), WordB,
          Plus(AsciiLetter \cup Digit \cup {".", "_", "%", "+", "-"}),
          Cls({"@"}),
          Plus(AsciiLetter \cup Digit \cup {".", "-"}),
          Cls({"."}),
          AtLeast(AsciiLetter, 2),
          WordB, Star(Space)>>)

norm_remove_emails(text) == Strip(Sub(norm_email_pattern, <<" ">>, text))

\* r"[^a-zA-Z0-9 .,'\-\n]" -> ""
\* the same with nothing removed
_remove_special_characters_kept(text) == text

_remove_special_characters(text) ==
    Sub(NotCls(AsciiLetter \cup Digit \cup {" ", ".", ",", "'", "-", "\n"}), <<>>, text)

\* r"\n{max_count+1,}" -> "\n" * max_count, with max_count raised to 1 when below
\* the same without lines 117-118, the floor of 1
_limit_consecutive_newlines_no_floor(text, max_count) ==
    Sub(AtLeast({"\n"}, max_count + 1), [i \in 1..max_count |-> "\n"], text)

_limit_consecutive_newlines(text, max_count) ==
    LET n == IF max_count < 1 THEN 1 ELSE max_count
    IN  Sub(AtLeast({"\n"}, n + 1), [i \in 1..n |-> "\n"], text)

\* a TextNormalizer: the seven fields set by __init__
Normalizer(ws, lb, sc, lc, ur, em, mx) ==
    [remove_extra_whitespace |-> ws, normalize_line_breaks |-> lb,
     remove_special_chars |-> sc, lowercase |-> lc, remove_urls |-> ur,
     remove_emails |-> em, max_consecutive_newlines |-> mx]

\* remove_extraction_errors, lines 122-145, with the letter case of the four
\* patterns r"^Error:.*?$", r"^Warning:.*?$", r"^\[Error.*?\]$", r"^\[Warning.*?\]$"
\* ignored (ci) or not
extraction_errors_removed(text, ci) ==
    LET word(w) == [t |-> "lit", w |-> w, ci |-> ci]
        rest == NotRun({"\n"}, 0, 0, TRUE, TRUE)
        error_patterns ==
            << Cat(<<word(<<"E","r","r","o","r",":">>), rest, Eol>>),
               Cat(<<word(<<"W","a","r","n","i","n","g",":">>), rest, Eol>>),
               Cat(<<word(<<"[","E","r","r","o","r">>), rest, Cls({"]"}), Eol>>),
               Cat(<<word(<<"[","W","a","r","n","i","n","g">>), rest, Cls({"]"}), Eol>>) >>
        lines == Split(text, "\n")
        stripped == [i \in 1..Len(lines) |-> Strip(lines[i])]
        cleaned_lines ==
            SelectSeq(stripped, LAMBDA line :
                ~\E k \in 1..Len(error_patterns) : Match(<<error_patterns[k]>>, line, 1) # 0)
        cleaned == Sub(AtLeast({"\n"}, 3), <<"\n", "\n">>, Join(cleaned_lines, <<"\n">>))
    IN  Strip(cleaned)

\* the same with the patterns matched in the case they are written in
remove_extraction_errors_case_sensitive(text) == extraction_errors_removed(text, FALSE)

\* the patterns are searched with re.IGNORECASE
remove_extraction_errors(text) == extraction_errors_removed(text, TRUE)

\* the steps of normalize, each under its flag
norm_step(self, step, text) ==
    CASE step = "line_breaks" ->
            IF self.normalize_line_breaks THEN _normalize_line_breaks(text) ELSE text
      [] step = "urls" -> IF self.remove_urls THEN norm_remove_urls(text) ELSE text
      [] step = "emails" -> IF self.remove_emails THEN norm_remove_emails(text) ELSE text
      [] step = "special" ->
            IF self.remove_special_chars THEN _remove_special_characters(text) ELSE text
      [] step = "whitespace" ->
            IF self.remove_extra_whitespace THEN _remove_extra_whitespace(text) ELSE text
      [] step = "lower" -> IF self.lowercase THEN Lower(text) ELSE text
      [] step = "newlines" ->
            _limit_consecutive_newlines(text, self.max_consecutive_newlines)
      [] step = "strip" -> Strip(text)

\* ------------------------------------------------------------ PrivacyAwareNormalizer

\* self.normalizer as __init__ builds it
process_normalizer == Normalizer(TRUE, TRUE, FALSE, FALSE, FALSE, FALSE, 2)

\* r'\d{3}[-.\s]?\d{3}[-.\s]?\d{4}'
pii_phone_pattern ==
    Cat(<<Between(Digit, 3, 3), Opt(Space \cup {"-", "."}), Between(Digit, 3, 3),
          Opt(Space \cup {"-", "."}), Between(Digit, 4, 4)>>)

\* text.count('@') + len(re.findall(...)) + text.count('http') + text.count('linkedin')
pii_count(text) ==
    Count(text, <<"@">>) + Len(FindAll(pii_phone_pattern, text))
      + Count(text, <<"h","t","t","p">>) + Count(text, <<"l","i","n","k","e","d","i","n">>)

\* ------------------------------------------------------------ Python values

\* a value handed to a method: a str (v: its characters), None, an int (n) or
\* a list (v: its items)
PyStr(s) == [type |-> "str", v |-> s, n |-> 0]

PyNone == [type |-> "NoneType", v |-> <<>>, n |-> 0]

PyInt(n) == [type |-> "int", v |-> <<>>, n |-> n]

PyList(items) == [type |-> "list", v |-> items, n |-> 0]

\* bool(x)
Truthy(x) ==
    CASE x.type = "str" -> x.v # <<>>
      [] x.type = "NoneType" -> FALSE
      [] x.type = "int" -> x.n # 0
      [] x.type = "list" -> x.v # <<>>

\* a guard that takes every sequence for a string
IsStr_or_list(x) == x.type \in {"str", "list"}

\* isinstance(x, str)
IsStr(x) == x.type = "str"

\* len(x) is defined
HasLen(x) == x.type \in {"str", "list"}

\* the record process returns
ProcessResult(text, original_length, final_length, pii_removed) ==
    [anonymized_text |-> text, original_length |-> original_length,
     final_length |-> final_length, pii_removed |-> pii_removed]

\* ------------------------------------------------------------ inputs

\* how many lines of running text stand before the line under study
MaxPad == 3

\* a line of running text: more than four words, nothing to redact
Filler == <<"L","e","d"," ","a"," ","t","e","a","m"," ","o","f"," ","t","e","n">>

\* the lines under study
Subjects ==
    << <<"a","@","b",".","c","o">>,
       <<"E","m","a","i","l",":"," ","a","@","b",".","c","o">>,
       <<"M","I","T"," ","S","c","h","o","o","l",":"," ","a","@","b",".","c","o">>,
       <<"C","a","l","l"," ","5","5","5","-","1","2","3","-","4","5","6","7">>,
       <<"C","a","l","l"," ","5","5","5","-","1","2","3","-","4","5","6","7",","," ","n","o","w">>,
       <<"T","e","l"," ","(","5","5","5",")"," ","1","2","3"," ","4","5","6","7",".">>,
       <<"5","5","5"," ","1","2","3"," ","4","5","6","7">>,
       <<"E","C","2"," ","h","o","s","t"," ","1","0",".","2","0",".","3","0",".","4","0">>,
       <<"H","o","s","t"," ","1","0",".","2","0",".","3","0",".","4","0">>,
       <<"W","o","r","k","e","d"," ","2","0","1","5","-","2","0","1","9">>,
       <<"W","o","r","k","e","d"," ","2","0","1","5"," ","-"," ","2","0","1","9">>,
       <<"B","a","c","h","e","l","o","r"," ","o","f"," ","S","c","i","e","n","c","e",","," ","U","n","i","v","e","r","s","i","t","y"," ","o","f"," ","E","x","a","m","p","l","e">>,
       <<"I","n","s","t","i","t","u","t","o"," ","d","e"," ","E","j","e","m","p","l","o">>,
       <<"J","u","a","n"," ","P","é","r","e","z">>,
       <<"I","D",":"," ","1","2","3","4","5","6","7","8","9">> >>

\* the line after the line under study, if any
Trailers == << Filler, <<"C","a","l","l"," ","5","5","5","-","1","2","3","-","4","5","6","7">> >>

\* pad lines of running text, the line under study, and the trailer
LinesDoc(pad, subject, trailer) ==
    [kind |-> "lines", pad |-> pad, subject |-> subject, trailer |-> trailer,
     lines |-> [k \in 1..pad |-> Filler] \o <<Subjects[subject]>>
                 \o (IF trailer = 0 THEN <<>> ELSE <<Trailers[trailer]>>)]

\* the values of the end-to-end scenario: two sets of personal data
Person ==
    << [name |-> <<"M","a","r","í","a"," ","L","ó","p","e","z">>, email |-> <<"m","a","r","i","a",".","l","o","p","e","z","@","e","x","a","m","p","l","e",".","c","o","m">>,
        linkedin |-> <<"l","i","n","k","e","d","i","n",".","c","o","m","/","i","n","/","m","l","o","p","e","z">>,
        degree |-> <<"B","a","c","h","e","l","o","r">>, education |-> <<"B","a","c","h","e","l","o","r"," ","i","n"," ","E","n","g","i","n","e","e","r","i","n","g",","," ">>,
        institution |-> <<"U","n","i","v","e","r","s","i","d","a","d"," ","d","e"," ","E","j","e","m","p","l","o">>,
        age |-> <<"3","0">>, gender |-> <<"f","e","m","a","l","e">>, marital |-> <<"M","a","r","r","i","e","d">>],
       [name |-> <<"J","o","h","n"," ","A","d","a","m"," ","D","o","e">>, email |-> <<"j","d","@","x",".","i","o">>,
        linkedin |-> <<"l","i","n","k","e","d","i","n",".","c","o","m","/","i","n","/","j","-","d","o","e">>,
        degree |-> <<"M","a","s","t","e","r">>, education |-> <<"M","a","s","t","e","r"," ","o","f"," ","A","r","t","s",","," ">>,
        institution |-> <<"H","i","l","l"," ","C","o","l","l","e","g","e">>,
        age |-> <<"7">>, gender |-> <<"h","o","m","b","r","e">>, marital |-> <<"s","o","l","t","e","r","o">>] >>

PhoneNumbers == << <<"+","1"," ","(","5","5","5",")"," ","1","2","3","-","4","5","6","7">>, <<"5","5","5","-","1","2","3","-","4","5","6","7">>, <<"3","0","0"," ","1","2","3"," ","4","5","6","7">> >>

\* the scenario for person p with phone number ph
ScenarioDoc(p, ph) ==
    [kind |-> "scenario", pad |-> 0, subject |-> p, trailer |-> ph,
     lines |->
    << <<"N","a","m","e",":"," ">> \o Person[p].name,
       <<"E","m","a","i","l",":"," ">> \o Person[p].email,
       <<"P","h","o","n","e",":"," ">> \o PhoneNumbers[ph],
       <<"L","i","n","k","e","d","I","n",":"," ">> \o Person[p].linkedin,
       Person[p].education \o Person[p].institution,
       <<"A","g","e",":"," ">> \o Person[p].age,
       <<"G","e","n","d","e","r",":"," ">> \o Person[p].gender,
       Person[p].marital >>]

Docs ==
    {LinesDoc(pad, s, t) : pad \in 0..MaxPad, s \in 1..Len(Subjects),
                           t \in 0..Len(Trailers)}
      \cup {ScenarioDoc(p, ph) : p \in 1..Len(Person), ph \in 1..Len(PhoneNumbers)}

\* an argument that is no text, or no text to work on
NoDoc == [kind |-> "value", pad |-> 0, subject |-> 0, trailer |-> 0, lines |-> <<>>]

BadValues == {PyNone, PyInt(0), PyInt(42), PyList(<<>>), PyList(<<"a">>), PyStr(<<>>)}

\* ------------------------------------------------------------ the phone matcher

\* phonenumbers.PhoneNumberMatcher is a library outside the repository.  It
\* reports substrings of the text that are valid phone numbers of the region
\* or of any country when written with a leading +.  Which digit strings are
\* valid is a matter of the numbering plans; the model leaves it open: every
\* run of digits and spaces (with an optional leading +) of at least
\* LibMinDigits digits may be reported or not.
LibMinDigits == 7

phone_candidates(text) ==
    LET runs == FindAll(Cat(<<Opt({"+"}), Cls(Digit), Star(Digit \cup {" "})>>),
                        phone_normalized(text))
        raw == [k \in 1..Len(runs) |-> Strip(runs[k])]
    IN  SelectSeq(raw, LAMBDA c :
                    Cardinality({k \in 1..Len(c) : c[k] \in Digit}) >= LibMinDigits)

\* the members of a sequence at the given indices, in order
Pick(seq, idxs) == [k \in 1..Cardinality(idxs) |-> seq[Nth(idxs, k)]]

\* ------------------------------------------------------------ state

VARIABLES
    call,    \* the method called from outside: "anonymize", "normalize", "process"
    self,    \* the TextNormalizer configuration in use
    doc,     \* how the argument of the call was built
    arg,     \* the argument of the call
    param,   \* the parameter text of the method being executed
    pc,      \* the statement to execute next
    text,    \* the local variable holding the text being rewritten
    hist,    \* the text after each step executed so far, by step
    ret,     \* the value returned by the call, once pc = "done"
    calls,   \* how many calls were made, each on the result of the one before
    prev     \* the result of the call before this one

vars == <<call, self, doc, arg, param, pc, text, hist, ret, calls, prev>>

\* hist with the text after one more step
Record(h, step, t) ==
    [x \in DOMAIN h \cup {step} |-> IF x = step THEN t ELSE h[x]]

DocText(d) == Join(d.lines, <<"\n">>)

\* a return from anonymize or normalize: to the caller outside, or back into process
Return(value, back) ==
    IF call = "process"
    THEN /\ text' = value
         /\ param' = PyStr(value)
         /\ pc' = back
         /\ ret' = ret
    ELSE /\ text' = value
         /\ param' = param
         /\ pc' = "done"
         /\ ret' = PyStr(value)

\* ------------------------------------------------------------ anonymize

\* lines 51-54: the guard, and anonymized = text
AnonymizeGuard ==
    /\ pc = "a_guard"
    /\ IF ~Truthy(param) \/ ~IsStr(param)
       THEN /\ Return(<<>>, "n_guard")
            /\ hist' = hist
       ELSE /\ text' = param.v
            /\ hist' = Record(hist, "input", param.v)
            /\ pc' = "a_emails"
            /\ UNCHANGED <<param, ret>>
    /\ UNCHANGED <<call, self, doc, arg, calls, prev>>

\* one statement anonymized = self._remove_...(anonymized)
AnonymizeStep(at, step, next, result) ==
    /\ pc = at
    /\ text' = result
    /\ hist' = Record(hist, step, result)
    /\ pc' = next
    /\ UNCHANGED <<call, self, doc, arg, param, ret, calls, prev>>

RemoveEmails == AnonymizeStep("a_emails", "emails", "a_phone_matcher", _remove_emails(text))

\* _remove_phone_numbers, lines 145-159: the two matcher loops and the
\* replacement of what they found
PhoneMatcher ==
    LET cands == phone_candidates(text)
    IN  \E us \in SUBSET (1..Len(cands)), co \in SUBSET (1..Len(cands)) :
            AnonymizeStep("a_phone_matcher", "phone_matcher", "a_phone_fallback",
                          replace_found(Pick(cands, us) \o Pick(cands, co), text))

\* _remove_phone_numbers, lines 161-172: the fallback pattern, line by line
PhoneFallback ==
    AnonymizeStep("a_phone_fallback", "phones", "a_urls", phone_fallback(text))

RemoveUrls == AnonymizeStep("a_urls", "urls", "a_social", _remove_urls(text))

RemoveSocialMedia ==
    AnonymizeStep("a_social", "social", "a_ids", _remove_social_media(text))

RemoveIdNumbers == AnonymizeStep("a_ids", "ids", "a_addresses", _remove_id_numbers(text))

RemoveAddresses == AnonymizeStep("a_addresses", "addresses", "a_age", _remove_addresses(text))

RemoveAgeReferences ==
    AnonymizeStep("a_age", "age", "a_gender", _remove_age_references(text))

RemoveGenderReferences ==
    AnonymizeStep("a_gender", "gender", "a_marital", _remove_gender_references(text))

RemoveMaritalStatus ==
    AnonymizeStep("a_marital", "marital", "a_education", _remove_marital_status(text))

AnonymizeEducation ==
    AnonymizeStep("a_education", "education", "a_names", _anonymize_education(text))

RemovePersonalNames ==
    AnonymizeStep("a_names", "names", "a_cleanup", _remove_personal_names(text))

CleanupFormatting ==
    AnonymizeStep("a_cleanup", "cleanup", "a_return", _cleanup_formatting(text))

\* line 80: return anonymized.strip()
AnonymizeReturn ==
    /\ pc = "a_return"
    /\ Return(Strip(text), "n_guard")
    /\ hist' = Record(hist, "anonymized", Strip(text))
    /\ UNCHANGED <<call, self, doc, arg, calls, prev>>

NextAnonymize ==
    \/ AnonymizeGuard
    \/ RemoveEmails
    \/ PhoneMatcher
    \/ PhoneFallback
    \/ RemoveUrls
    \/ RemoveSocialMedia
    \/ RemoveIdNumbers
    \/ RemoveAddresses
    \/ RemoveAgeReferences
    \/ RemoveGenderReferences
    \/ RemoveMaritalStatus
    \/ AnonymizeEducation
    \/ RemovePersonalNames
    \/ CleanupFormatting
    \/ AnonymizeReturn

\* anonymize called on a document or on a value that is no text
Init ==
    /\ call = "anonymize"
    /\ self = process_normalizer
    /\ \/ \E d \in Docs : doc = d /\ arg = PyStr(DocText(d))
       \/ \E x \in BadValues : doc = NoDoc /\ arg = x
    /\ param = arg
    /\ pc = "a_guard"
    /\ text = <<>>
    /\ hist = <<>>
    /\ ret = PyNone
    /\ calls = 1
    /\ prev = PyNone

Spec == Init /\ [][NextAnonymize]_vars

\* ------------------------------------------------------------ normalize

\* lines 51-54: the guard, and normalized = text
NormalizeGuard ==
    /\ pc = "n_guard"
    /\ IF ~Truthy(param) \/ ~IsStr(param)
       THEN /\ Return(<<>>, "p_count")
            /\ hist' = hist
       ELSE /\ text' = param.v
            /\ hist' = Record(hist, "n_input", param.v)
            /\ pc' = "n_line_breaks"
            /\ UNCHANGED <<param, ret>>
    /\ UNCHANGED <<call, self, doc, arg, calls, prev>>

\* one statement of normalize: the step under its flag
NormalizeStep(at, step, key, next) ==
    /\ pc = at
    /\ text' = norm_step(self, step, text)
    /\ hist' = Record(hist, key, norm_step(self, step, text))
    /\ pc' = next
    /\ UNCHANGED <<call, self, doc, arg, param, ret, calls, prev>>

NormalizeLineBreaks == NormalizeStep("n_line_breaks", "line_breaks", "n_line_breaks", "n_urls")

NormalizeUrls == NormalizeStep("n_urls", "urls", "n_urls", "n_emails")

NormalizeEmails == NormalizeStep("n_emails", "emails", "n_emails", "n_special")

NormalizeSpecial == NormalizeStep("n_special", "special", "n_special", "n_whitespace")

NormalizeWhitespace == NormalizeStep("n_whitespace", "whitespace", "n_whitespace", "n_lower")

NormalizeLower == NormalizeStep("n_lower", "lower", "n_lower", "n_newlines")

NormalizeNewlines == NormalizeStep("n_newlines", "newlines", "n_newlines", "n_return")

\* line 78: return normalized.strip()
NormalizeReturn ==
    /\ pc = "n_return"
    /\ Return(Strip(text), "p_count")
    /\ hist' = Record(hist, "normalized", Strip(text))
    /\ UNCHANGED <<call, self, doc, arg, calls, prev>>

NextNormalize ==
    \/ NormalizeGuard
    \/ NormalizeLineBreaks
    \/ NormalizeUrls
    \/ NormalizeEmails
    \/ NormalizeSpecial
    \/ NormalizeWhitespace
    \/ NormalizeLower
    \/ NormalizeNewlines
    \/ NormalizeReturn

\* how many times normalize is applied, each time to its own result
MaxCalls == 2

\* normalize called again, with the same configuration, on what it returned
NormalizeAgain ==
    /\ pc = "done"
    /\ call = "normalize"
    /\ calls < MaxCalls
    /\ prev' = ret
    /\ param' = ret
    /\ calls' = calls + 1
    /\ pc' = "n_guard"
    /\ text' = <<>>
    /\ hist' = <<>>
    /\ UNCHANGED <<call, self, doc, arg, ret>>

\* the presets of NormalizerPresets
default == Normalizer(TRUE, TRUE, FALSE, FALSE, FALSE, FALSE, 2)

aggressive == Normalizer(TRUE, TRUE, TRUE, TRUE, TRUE, TRUE, 1)

minimal == Normalizer(TRUE, TRUE, FALSE, FALSE, FALSE, FALSE, 3)

search_optimized == Normalizer(TRUE, TRUE, FALSE, TRUE, TRUE, FALSE, 1)

for_job_matching == Normalizer(TRUE, TRUE, FALSE, FALSE, TRUE, FALSE, 2)

for_skills_extraction == Normalizer(TRUE, TRUE, FALSE, FALSE, TRUE, TRUE, 1)

aggressive_for_embeddings == Normalizer(TRUE, TRUE, FALSE, TRUE, TRUE, TRUE, 1)

Presets ==
    {default, aggressive, minimal, search_optimized, for_job_matching,
     for_skills_extraction, aggressive_for_embeddings}

\* the largest max_consecutive_newlines tried
MaxNewlines == 3

\* every combination of the flags, with each limit on newlines
Configurations ==
    {Normalizer(ws, lb, sc, lc, ur, em, mx) :
        ws \in BOOLEAN, lb \in BOOLEAN, sc \in BOOLEAN, lc \in BOOLEAN,
        ur \in BOOLEAN, em \in BOOLEAN, mx \in 0..MaxNewlines}

\* texts handed to normalize
NormTexts ==
    { <<"s","e","e"," ","H","T","T","P",":","/","/","X",".","C","O","M"," ","n","o","w">>,
      <<"V","i","s","i","t"," ","h","t","t","p","s",":","/","/","x",".","i","o","/","a"," "," ","n","o","w">>,
      <<"M","a","i","l"," ","a","@","b",".","c","o","\r","\n","\r","\n","\r","\n","\r","\n","E","n","d">>,
      <<" "," ","C","+","+"," ","&"," "," ","C","#","\t"," ","d","e","v"," ","\n","\n","\n","\n"," ","o","k"," ">>,
      <<"S","e","ñ","o","r"," ","d","e","v"," ","(","R","&","D",")">>,
      <<"a","\n","b","\n","\n","\n","\n","c","\n","\n","d">>,
      <<"H","e","l","l","o","!","!","!"," ","V","i","s","i","t"," ","h","t","t","p","s",":","/","/","x",".","c","o","m",".","\n","E","M","A","I","L",":"," ","t","e","s","t","@","s","i","t","e",".","c","o","m">> }

\* normalize called on a text or on a value that is no text, then called again
InitNormalize ==
    /\ call = "normalize"
    /\ self \in Configurations
    /\ doc = NoDoc
    /\ arg \in {PyStr(t) : t \in NormTexts} \cup BadValues
    /\ param = arg
    /\ pc = "n_guard"
    /\ text = <<>>
    /\ hist = <<>>
    /\ ret = PyNone
    /\ calls = 1
    /\ prev = PyNone

SpecNormalize == InitNormalize /\ [][NextNormalize \/ NormalizeAgain]_vars

\* anonymize or normalize called once from outside
InitCalls ==
    /\ \/ /\ call = "anonymize"
          /\ self = process_normalizer
          /\ \/ \E d \in Docs : d.kind = "scenario" /\ doc = d /\ arg = PyStr(DocText(d))
             \/ doc = NoDoc /\ arg \in BadValues
          /\ pc = "a_guard"
       \/ /\ call = "normalize"
          /\ self \in Presets
          /\ doc = NoDoc
          /\ arg \in {PyStr(t) : t \in NormTexts} \cup BadValues
          /\ pc = "n_guard"
    /\ param = arg
    /\ text = <<>>
    /\ hist = <<>>
    /\ ret = PyNone
    /\ calls = 1
    /\ prev = PyNone

SpecCalls == InitCalls /\ [][NextAnonymize \/ NextNormalize]_vars

\* ------------------------------------------------------------ process

\* an exception leaving the call
Raised(exception) == [type |-> exception, v |-> <<>>, n |-> 0]

\* lines 40-46: if not text, the zero-valued record
ProcessGuard ==
    /\ pc = "p_guard"
    /\ IF ~Truthy(arg)
       THEN /\ ret' = ProcessResult(<<>>, 0, 0, 0)
            /\ pc' = "done"
       ELSE /\ ret' = ret
            /\ pc' = "p_len"
    /\ UNCHANGED <<call, self, doc, arg, param, text, hist, calls, prev>>

\* lines 48-49: original_length = len(text), then the call of anonymize
ProcessLength ==
    /\ pc = "p_len"
    /\ IF HasLen(arg)
       THEN /\ ret' = ret
            /\ pc' = "a_guard"
       ELSE /\ ret' = Raised("TypeError")
            /\ pc' = "raised"
    /\ UNCHANGED <<call, self, doc, arg, param, text, hist, calls, prev>>

\* lines 51-56: pii_count; str.count and list.count exist, re.findall needs a
\* string
ProcessCount ==
    /\ pc = "p_count"
    /\ IF IsStr(arg)
       THEN /\ ret' = ret
            /\ pc' = "p_return"
       ELSE /\ ret' = Raised("TypeError")
            /\ pc' = "raised"
    /\ UNCHANGED <<call, self, doc, arg, param, text, hist, calls, prev>>

\* lines 58-63: the record returned
ProcessReturn ==
    /\ pc = "p_return"
    /\ ret' = ProcessResult(text, Len(arg.v), Len(text), pii_count(arg.v))
    /\ pc' = "done"
    /\ UNCHANGED <<call, self, doc, arg, param, text, hist, calls, prev>>

NextProcess ==
    \/ ProcessGuard
    \/ ProcessLength
    \/ ProcessCount
    \/ ProcessReturn

\* process called on a document or on a value that is no text
InitProcess ==
    /\ call = "process"
    /\ self = process_normalizer
    /\ \/ \E d \in Docs : doc = d /\ arg = PyStr(DocText(d))
       \/ \E x \in BadValues : doc = NoDoc /\ arg = x
    /\ param = arg
    /\ pc = "p_guard"
    /\ text = <<>>
    /\ hist = <<>>
    /\ ret = PyNone
    /\ calls = 1
    /\ prev = PyNone

SpecProcess == InitProcess /\ [][NextAnonymize \/ NextNormalize \/ NextProcess]_vars

\* ------------------------------------------------------------ threads

\* Several threads call the methods of one PrivacyAwareNormalizer, their
\* statements interleaved.  Here self is that shared instance, call maps each
\* thread to the frame of the call it is executing or has just ended, and calls
\* counts the calls made.
Threads == {"t1", "t2"}

\* the most calls made in one behaviour
MaxThreadCalls == 2

\* __init__, lines 13-23: the fields of a new PrivacyAwareNormalizer
PrivacyAwareNormalizer_init ==
    [anonymizer |-> [email_pattern |-> email_pattern, url_pattern |-> url_pattern,
                     social_patterns |-> social_patterns, id_patterns |-> id_patterns,
                     age_patterns |-> age_patterns, gender_patterns |-> gender_patterns,
                     marital_patterns |-> marital_patterns,
                     university_keywords |-> university_keywords],
     normalizer |-> process_normalizer]

\* the statements of each method in the order of execution
Statements(method) ==
    LET anonymize == <<"a_guard", "a_emails", "a_phone_matcher", "a_phone_fallback",
                       "a_urls", "a_social", "a_ids", "a_addresses", "a_age",
                       "a_gender", "a_marital", "a_education", "a_names",
                       "a_cleanup", "a_return">>
        normalize == <<"n_guard", "n_line_breaks", "n_urls", "n_emails", "n_special",
                       "n_whitespace", "n_lower", "n_newlines", "n_return">>
        process == <<"p_guard", "p_len">> \o anonymize \o normalize
                     \o <<"p_count", "p_return">>
    IN  CASE method = "anonymize" -> anonymize \o <<"done">>
          [] method = "normalize" -> normalize \o <<"done">>
          [] method = "process" -> process \o <<"done">>
          [] method = "anonymize_cv_for_bert" ->
                <<"b_init">> \o process \o <<"b_return", "done">>

\* the statement after statement at
After(method, at) ==
    LET st == Statements(method)
    IN  st[1 + CHOOSE k \in 1..Len(st) : st[k] = at]

\* the frame of a call that starts: the instance it runs on, its argument and
\* its locals
Frame(method, processor, value) ==
    [method |-> method, processor |-> processor, arg |-> value, param |-> value,
     pc |-> Statements(method)[1], text |-> <<>>, ret |-> PyNone]

\* the text read when the text being rewritten is kept in one place for all threads
Working_shared(f, frames) == frames["t1"].text

\* the local variable a statement of the frame reads and rewrites
Working(f, frames) == f.text

\* one statement of a frame; found is what the phone library reports
Exec(f, frames, found) ==
    LET t == Working(f, frames)
        to(at) == [f EXCEPT !.pc = at]
        step(result) == [f EXCEPT !.text = result, !.pc = After(f.method, f.pc)]
        raise(exception) == [f EXCEPT !.ret = Raised(exception), !.pc = "raised"]
        leave(result) ==
            IF f.method = "anonymize_cv_for_bert"
            THEN [f EXCEPT !.ret = result, !.pc = "b_return"]
            ELSE [f EXCEPT !.ret = result, !.pc = "done"]
        from_anonymize(value) ==
            IF f.method = "anonymize"
            THEN [f EXCEPT !.text = value, !.ret = PyStr(value), !.pc = "done"]
            ELSE [f EXCEPT !.text = value, !.param = PyStr(value), !.pc = "n_guard"]
        from_normalize(value) ==
            IF f.method = "normalize"
            THEN [f EXCEPT !.text = value, !.ret = PyStr(value), !.pc = "done"]
            ELSE [f EXCEPT !.text = value, !.pc = "p_count"]
        normalized(name) == step(norm_step(f.processor.normalizer, name, t))
    IN  CASE f.pc = "b_init" ->
                [f EXCEPT !.processor = PrivacyAwareNormalizer_init, !.pc = "p_guard"]
          [] f.pc = "p_guard" ->
                IF ~Truthy(f.arg) THEN leave(ProcessResult(<<>>, 0, 0, 0))
                ELSE to("p_len")
          [] f.pc = "p_len" ->
                IF HasLen(f.arg) THEN to("a_guard") ELSE raise("TypeError")
          [] f.pc = "a_guard" ->
                IF ~Truthy(f.param) \/ ~IsStr(f.param) THEN from_anonymize(<<>>)
                ELSE [f EXCEPT !.text = f.param.v, !.pc = "a_emails"]
          [] f.pc = "a_emails" -> step(_remove_emails(t))
          [] f.pc = "a_phone_matcher" -> step(replace_found(found, t))
          [] f.pc = "a_phone_fallback" -> step(phone_fallback(t))
          [] f.pc = "a_urls" -> step(_remove_urls(t))
          [] f.pc = "a_social" -> step(_remove_social_media(t))
          [] f.pc = "a_ids" -> step(_remove_id_numbers(t))
          [] f.pc = "a_addresses" -> step(_remove_addresses(t))
          [] f.pc = "a_age" -> step(_remove_age_references(t))
          [] f.pc = "a_gender" -> step(_remove_gender_references(t))
          [] f.pc = "a_marital" -> step(_remove_marital_status(t))
          [] f.pc = "a_education" -> step(_anonymize_education(t))
          [] f.pc = "a_names" -> step(_remove_personal_names(t))
          [] f.pc = "a_cleanup" -> step(_cleanup_formatting(t))
          [] f.pc = "a_return" -> from_anonymize(Strip(t))
          [] f.pc = "n_guard" ->
                IF ~Truthy(f.param) \/ ~IsStr(f.param) THEN from_normalize(<<>>)
                ELSE [f EXCEPT !.text = f.param.v, !.pc = "n_line_breaks"]
          [] f.pc = "n_line_breaks" -> normalized("line_breaks")
          [] f.pc = "n_urls" -> normalized("urls")
          [] f.pc = "n_emails" -> normalized("emails")
          [] f.pc = "n_special" -> normalized("special")
          [] f.pc = "n_whitespace" -> normalized("whitespace")
          [] f.pc = "n_lower" -> normalized("lower")
          [] f.pc = "n_newlines" -> normalized("newlines")
          [] f.pc = "n_return" -> from_normalize(Strip(t))
          [] f.pc = "p_count" ->
                IF IsStr(f.arg) THEN to("p_return") ELSE raise("TypeError")
          [] f.pc = "p_return" ->
                leave(ProcessResult(f.text, Len(f.arg.v), Len(f.text), pii_count(f.arg.v)))
          [] f.pc = "b_return" ->
                [f EXCEPT !.ret = PyStr(f.ret.anonymized_text), !.pc = "done"]

\* what the phone library may report for a text: numbers among the candidates
LibraryReports(t) ==
    LET cands == phone_candidates(t)
    IN  {Pick(cands, us) \o Pick(cands, co) :
            us \in SUBSET (1..Len(cands)), co \in SUBSET (1..Len(cands))}

\* texts and other values the threads pass
ThreadValues ==
    { PyStr(<<"A","n","n"," ","L","e","e","\n","a","@","b",".","c","o">>),
      PyStr(<<"A","g","e",":"," ","3","0","\n","\n","\n","M","I","T"," ","S","c","h","o","o","l">>),
      PyNone, PyInt(42) }

\* a thread that runs nothing
Idle == [method |-> "none", processor |-> PyNone, arg |-> PyNone, param |-> PyNone,
         pc |-> "idle", text |-> <<>>, ret |-> PyNone]

\* a thread that runs no call, or whose call is over, calls a method: of the
\* shared instance, or the static anonymize_cv_for_bert
ThreadCall(th) ==
    /\ call[th].pc \in {"idle", "done", "raised"}
    /\ calls < MaxThreadCalls
    /\ \E method \in {"anonymize", "normalize", "process", "anonymize_cv_for_bert"},
          value \in ThreadValues :
            call' = [call EXCEPT ![th] = Frame(method, self, value)]
    /\ calls' = calls + 1
    /\ UNCHANGED <<self, doc, arg, param, pc, text, hist, ret, prev>>

\* a thread executes the next statement of its call
ThreadStep(th) ==
    /\ call[th].pc \notin {"idle", "done", "raised"}
    /\ \E found \in (IF call[th].pc = "a_phone_matcher"
                       THEN LibraryReports(Working(call[th], call)) ELSE {<<>>}) :
            call' = [call EXCEPT ![th] = Exec(call[th], call, found)]
    /\ UNCHANGED <<self, doc, arg, param, pc, text, hist, ret, calls, prev>>

NextThreads ==
    \E th \in Threads : ThreadCall(th) \/ ThreadStep(th)

\* one instance constructed, no call made yet
InitThreads ==
    /\ self = PrivacyAwareNormalizer_init
    /\ call = [th \in Threads |-> Idle]
    /\ prev = PyNone
    /\ calls = 0
    /\ doc = NoDoc
    /\ arg = PyNone
    /\ param = PyNone
    /\ pc = "threads"
    /\ text = <<>>
    /\ hist = <<>>
    /\ ret = PyNone

SpecThreads == InitThreads /\ [][NextThreads]_vars

\* what a call returns when it runs alone on a newly constructed instance
RECURSIVE Alone(_)
Alone(f) ==
    IF f.pc \in {"done", "raised"} THEN f.ret
    ELSE Alone(Exec(f, [th \in Threads |-> f], <<>>))

Fresh(method, value) == Alone(Frame(method, PrivacyAwareNormalizer_init, value))

\* ------------------------------------------------------------ uploads

\* __init__, lines 18-22: the fields of a DocumentProcessingService the methods read
DocumentProcessingService_init ==
    [supported_extensions |->
        { <<".","p","d","f">>, <<".","d","o","c","x">>, <<".","j","s","o","n">>, <<".","t","x","t">>, <<".","t","e","x","t">>,
          <<".","j","p","g">>, <<".","j","p","e","g">>, <<".","p","n","g">> },
     max_file_size |-> 10 * 1024 * 1024]

\* an uploaded file: its name, its bytes read as text and their number, whether
\* read() succeeds, what the bytes are ("text", "json_text": a JSON object with
\* a 'text' member, "json_object": one without, "json_other": JSON that is no
\* object) and the value they hold: the text, or the 'text' member
Upload(name, raw, size, readable, kind, value) ==
    [type |-> "UploadedFile", name |-> name, raw |-> raw, size |-> size,
     readable |-> readable, kind |-> kind, value |-> value]

Uploads ==
    << Upload(<<"c","v",".","t","x","t">>, <<"A","n","n"," ","L","e","e","\n","a","@","b",".","c","o">>, Len(<<"A","n","n"," ","L","e","e","\n","a","@","b",".","c","o">>), TRUE, "text", PyStr(<<"A","n","n"," ","L","e","e","\n","a","@","b",".","c","o">>)),
       Upload(<<"c","v",".","j","s","o","n">>, <<"{","\"","t","e","x","t","\"",":"," ","\"","A","n","n"," ","L","e","e","\"","}">>, Len(<<"{","\"","t","e","x","t","\"",":"," ","\"","A","n","n"," ","L","e","e","\"","}">>), TRUE, "json_text", PyStr(<<"A","n","n"," ","L","e","e">>)),
       Upload(<<"c","v",".","j","s","o","n">>, <<"{","\"","t","e","x","t","\"",":"," ","n","u","l","l","}">>, Len(<<"{","\"","t","e","x","t","\"",":"," ","n","u","l","l","}">>), TRUE, "json_text", PyNone),
       Upload(<<"c","v",".","j","s","o","n">>, <<"{","\"","t","e","x","t","\"",":"," ","0","}">>, Len(<<"{","\"","t","e","x","t","\"",":"," ","0","}">>), TRUE, "json_text", PyInt(0)),
       Upload(<<"c","v",".","j","s","o","n">>, <<"{","\"","t","e","x","t","\"",":"," ","4","2","}">>, Len(<<"{","\"","t","e","x","t","\"",":"," ","4","2","}">>), TRUE, "json_text", PyInt(42)),
       Upload(<<"c","v",".","j","s","o","n">>, <<"{","\"","t","e","x","t","\"",":"," ","[","]","}">>, Len(<<"{","\"","t","e","x","t","\"",":"," ","[","]","}">>), TRUE, "json_text", PyList(<<>>)),
       Upload(<<"c","v",".","j","s","o","n">>, <<"[","1","]">>, Len(<<"[","1","]">>), TRUE, "json_other", PyNone),
       Upload(<<"c","v",".","j","s","o","n">>, <<"{","\"","a","\"",":"," ","1","}">>, Len(<<"{","\"","a","\"",":"," ","1","}">>), TRUE, "json_object", PyStr(<<"{","\"","a","\"",":"," ","1","}">>)),
       Upload(<<"C","V",".","P","D","F">>, <<"A","n","n"," ","L","e","e">>, Len(<<"A","n","n"," ","L","e","e">>), TRUE, "text", PyStr(<<"A","n","n"," ","L","e","e">>)),
       Upload(<<"c","v">>, <<"A","n","n"," ","L","e","e">>, Len(<<"A","n","n"," ","L","e","e">>), TRUE, "text", PyStr(<<"A","n","n"," ","L","e","e">>)),
       Upload(<<"c","v",".","z","i","p">>, <<"A","n","n"," ","L","e","e">>, Len(<<"A","n","n"," ","L","e","e">>), TRUE, "text", PyStr(<<"A","n","n"," ","L","e","e">>)),
       Upload(<<>>, <<"A","n","n"," ","L","e","e">>, Len(<<"A","n","n"," ","L","e","e">>), TRUE, "text", PyStr(<<"A","n","n"," ","L","e","e">>)),
       Upload(<<"c","v",".","t","x","t">>, <<"A","n","n"," ","L","e","e">>, Len(<<"A","n","n"," ","L","e","e">>), FALSE, "text", PyStr(<<"A","n","n"," ","L","e","e">>)),
       Upload(<<"c","v",".","t","x","t">>, <<>>, Len(<<>>), TRUE, "text", PyStr(<<>>)),
       Upload(<<"c","v",".","p","d","f">>, <<"A","n","n"," ","L","e","e">>, DocumentProcessingService_init.max_file_size + 1, TRUE, "text", PyStr(<<"A","n","n"," ","L","e","e">>)) >>

\* bool(uploaded_file): None is false, and a file is as true as its name
Present(f) == f.type = "UploadedFile" /\ f.name # <<>>

\* _get_file_extension, lines 168-173
_get_file_extension(file_name) ==
    IF Contains(file_name, <<".">>)
    THEN LET parts == Split(file_name, ".")
         IN  <<".">> \o Lower(parts[Len(parts)])
    ELSE <<>>

\* _validate_file, lines 125-166: "" when the file is valid, else the error
_validate_file(service, file_name, file_size) ==
    LET extension == _get_file_extension(file_name)
    IN  IF file_size > service.max_file_size THEN "File too large"
        ELSE IF file_size = 0 THEN "File is empty"
        ELSE IF extension = <<>> THEN "File has no extension"
        ELSE IF extension \notin service.supported_extensions
             THEN "Unsupported file type"
        ELSE ""

\* _prepare_metadata, lines 175-203; the generated id and the time are left out
_prepare_metadata(user_id, doc_id, file_name, file_size) ==
    [doc_id |-> IF doc_id = "" THEN "generated" ELSE doc_id, user_id |-> user_id,
     original_filename |-> file_name, file_size |-> file_size]

\* _error_response, lines 214-228, and _success_response, lines 205-212
_error_response(error_message, status_code, details) ==
    IF details = PyNone
    THEN [success |-> FALSE, error |-> error_message, status_code |-> status_code]
    ELSE [success |-> FALSE, error |-> error_message, status_code |-> status_code,
          details |-> details]

_success_response(data) == [success |-> TRUE, data |-> data, status_code |-> 200]

\* TextExtractor.extract_text, text_extractor.py lines 72-105: what it may
\* return for a file of a supported extension.  Plain text is decoded; JSON
\* gives data.get('text', json.dumps(data)), the raw text when it does not
\* parse and an error when it is no object; PDF, DOCX and images go through
\* libraries that give a text or fail.
extract_text(f, metadata, extension) ==
    LET failed == [error |-> "Extraction failed", file_path |-> f.name]
        result(value) ==
            [doc_id |-> metadata.doc_id, file_path |-> f.name, file_type |-> extension,
             extracted_text |-> value, metadata |-> metadata]
    IN  IF extension \in {<<".","t","x","t">>, <<".","t","e","x","t">>}
        THEN {result(PyStr(f.raw))}
        ELSE IF extension = <<".","j","s","o","n">>
        THEN CASE f.kind = "json_text" -> {result(f.value)}
               [] f.kind = "json_other" -> {failed}
               [] OTHER -> {result(PyStr(f.raw))}
        ELSE {failed, result(PyStr(f.raw))}

\* leaving process_uploaded_file: to the caller outside, or back into extract_view
Respond(response) ==
    IF call = "extract_view"
    THEN /\ hist' = Record(hist, "result", response)
         /\ pc' = "v_result"
         /\ ret' = ret
    ELSE /\ hist' = hist
         /\ pc' = "done"
         /\ ret' = response

\* a step of process_uploaded_file that noted the value of a local and goes on
Proceed(name, value, next) ==
    /\ hist' = Record(hist, name, value)
    /\ pc' = next
    /\ ret' = ret

\* lines 53-58: file presence
UploadPresence ==
    /\ pc = "u_presence"
    /\ IF ~Present(param) THEN Respond(_error_response("No file received", 400, PyNone))
       ELSE Proceed("uploaded_file", param, "u_read")
    /\ UNCHANGED <<call, self, doc, arg, param, text, calls, prev>>

\* lines 60-68: read() and name, under try
UploadRead ==
    /\ pc = "u_read"
    /\ IF ~param.readable THEN Respond(_error_response("Error reading file", 400, PyNone))
       ELSE Proceed("file_name", param.name, "u_validate")
    /\ UNCHANGED <<call, self, doc, arg, param, text, calls, prev>>

\* lines 70-79: _validate_file
UploadValidate ==
    /\ pc = "u_validate"
    /\ LET error == _validate_file(self, param.name, param.size)
       IN  IF error # "" THEN Respond(_error_response(error, 400, PyNone))
           ELSE Proceed("extension", _get_file_extension(param.name), "u_metadata")
    /\ UNCHANGED <<call, self, doc, arg, param, text, calls, prev>>

\* lines 84-90: the metadata; doc holds the user_id and doc_id of the call
UploadMetadata ==
    /\ pc = "u_metadata"
    /\ Proceed("metadata",
               _prepare_metadata(doc.user_id, doc.doc_id, param.name, param.size),
               "u_extract")
    /\ UNCHANGED <<call, self, doc, arg, param, text, calls, prev>>

\* lines 92-98: the call of the extractor
UploadExtract ==
    /\ pc = "u_extract"
    /\ \E extraction_result \in extract_text(param, hist["metadata"], hist["extension"]) :
            Proceed("extract_text", extraction_result, "u_format")
    /\ UNCHANGED <<call, self, doc, arg, param, text, calls, prev>>

\* lines 100-106: an extraction result with "error"
UploadFormat ==
    /\ pc = "u_format"
    /\ IF "error" \in DOMAIN hist["extract_text"]
       THEN Respond(_error_response(hist["extract_text"].error, 500, hist["extract_text"]))
       ELSE Proceed("raw_text", hist["extract_text"].extracted_text, "u_normalize")
    /\ UNCHANGED <<call, self, doc, arg, param, text, calls, prev>>

\* lines 108-116: anonymize_cv_for_bert(raw_text), under try
UploadNormalize ==
    /\ pc = "u_normalize"
    /\ LET outcome == Fresh("anonymize_cv_for_bert", hist["raw_text"])
       IN  IF ~IsStr(outcome)
           THEN Respond(_error_response("Normalization error", 500, PyNone))
           ELSE Proceed("anonymize_cv_for_bert", outcome, "u_update")
    /\ UNCHANGED <<call, self, doc, arg, param, text, calls, prev>>

\* lines 118-123: the lengths, outside every try, and the success response
UploadUpdate ==
    /\ pc = "u_update"
    /\ IF ~HasLen(hist["raw_text"])
       THEN /\ ret' = Raised("TypeError")
            /\ pc' = "raised"
            /\ hist' = hist
       ELSE Respond(_success_response(
                [doc_id |-> hist["extract_text"].doc_id,
                 file_path |-> hist["extract_text"].file_path,
                 file_type |-> hist["extract_text"].file_type,
                 metadata |-> hist["extract_text"].metadata,
                 extracted_text |-> hist["anonymize_cv_for_bert"],
                 raw_text_length |-> Len(hist["raw_text"].v),
                 normalized_text_length |-> Len(hist["anonymize_cv_for_bert"].v)]))
    /\ UNCHANGED <<call, self, doc, arg, param, text, calls, prev>>

NextUpload ==
    \/ UploadPresence
    \/ UploadRead
    \/ UploadValidate
    \/ UploadMetadata
    \/ UploadExtract
    \/ UploadFormat
    \/ UploadNormalize
    \/ UploadUpdate

\* process_uploaded_file called with a file or with None, with the default
\* user_id and doc_id or with given ones
InitUpload ==
    /\ call = "process_uploaded_file"
    /\ self = DocumentProcessingService_init
    /\ doc \in {[user_id |-> "guest", doc_id |-> ""], [user_id |-> "u1", doc_id |-> "d1"]}
    /\ arg \in Range(Uploads) \cup {PyNone}
    /\ param = arg
    /\ pc = "u_presence"
    /\ text = <<>>
    /\ hist = <<>>
    /\ ret = PyNone
    /\ calls = 1
    /\ prev = PyNone

SpecUpload == InitUpload /\ [][NextUpload]_vars

\* ------------------------------------------------------------ extract_view

\* JsonResponse(body, status=...)
JsonResponse(body, status) == [status |-> status, body |-> body]

\* lines 30-31: the method
ViewMethod ==
    /\ pc = "v_method"
    /\ IF arg.method # "POST"
       THEN /\ ret' = JsonResponse([error |-> "POST method only allowed"], 405)
            /\ pc' = "done"
       ELSE /\ ret' = ret
            /\ pc' = "v_job_text"
    /\ UNCHANGED <<call, self, doc, arg, param, text, hist, calls, prev>>

\* lines 33-35: job_text
ViewJobText ==
    /\ pc = "v_job_text"
    /\ IF arg.job_text = ""
       THEN /\ ret' = JsonResponse([error |-> "Job description (job_text) is required"], 400)
            /\ pc' = "done"
       ELSE /\ ret' = ret
            /\ pc' = "v_files"
    /\ UNCHANGED <<call, self, doc, arg, param, text, hist, calls, prev>>

\* lines 37-46: the files, their number, and the locals of the loop
ViewFiles ==
    /\ pc = "v_files"
    /\ IF arg.files = <<>>
       THEN /\ ret' = JsonResponse([error |-> "No file received."], 400)
            /\ pc' = "done"
            /\ prev' = prev
       ELSE IF Len(arg.files) > 10
       THEN /\ ret' = JsonResponse([error |-> "You can upload a maximum of 10 files."], 400)
            /\ pc' = "done"
            /\ prev' = prev
       ELSE /\ ret' = ret
            /\ pc' = "v_loop"
            /\ prev' = [extracted_texts |-> <<>>, prediction_scores |-> <<>>,
                        status_code |-> 200]
    /\ UNCHANGED <<call, self, doc, arg, param, text, hist, calls>>

\* lines 48-53 and 69-72: the next file is handed to process_uploaded_file, or
\* the loop is over and the view answers; calls is the number of the file
ViewLoop ==
    /\ pc = "v_loop"
    /\ IF calls > Len(arg.files)
       THEN /\ ret' = JsonResponse([extracted_texts |-> prev.extracted_texts,
                                    prediction_scores |-> prev.prediction_scores],
                                   prev.status_code)
            /\ pc' = "done"
            /\ UNCHANGED <<param, hist>>
       ELSE /\ param' = arg.files[calls]
            /\ hist' = <<>>
            /\ pc' = "u_presence"
            /\ ret' = ret
    /\ UNCHANGED <<call, self, doc, arg, text, calls, prev>>

\* lines 55-59: the status code and the text of the result
ViewResult ==
    /\ pc = "v_result"
    /\ LET result == hist["result"]
           extracted_text ==
               IF "data" \in DOMAIN result THEN result.data.extracted_text
               ELSE PyStr(<<>>)
       IN  /\ prev' = [prev EXCEPT !.status_code = result.status_code]
           /\ IF ~Truthy(extracted_text)
              THEN /\ ret' = JsonResponse(
                              [error |-> "Failed to extract text from one of the files."], 500)
                   /\ pc' = "done"
                   /\ text' = text
              ELSE /\ ret' = ret
                   /\ pc' = "v_predict"
                   /\ text' = extracted_text.v
    /\ UNCHANGED <<call, self, doc, arg, param, hist, calls>>

\* lines 61-67: the prediction of the model, which gives a score or raises
ViewPredict ==
    /\ pc = "v_predict"
    /\ \/ /\ ret' = JsonResponse([error |-> "Error during prediction"], 500)
          /\ pc' = "done"
          /\ UNCHANGED <<prev, calls>>
       \/ /\ prev' = [prev EXCEPT !.extracted_texts = Append(@, text),
                                    !.prediction_scores = Append(@, "score")]
          /\ calls' = calls + 1
          /\ pc' = "v_loop"
          /\ ret' = ret
    /\ UNCHANGED <<call, self, doc, arg, param, text, hist>>

NextView ==
    \/ ViewMethod
    \/ ViewJobText
    \/ ViewFiles
    \/ ViewLoop
    \/ ViewResult
    \/ ViewPredict

\* the most files of a request whose files are combined freely
MaxFiles == 2

\* the lists of files of the requests: up to MaxFiles files combined freely
\* (a text file, a JSON file whose text is null, a file that cannot be read, a
\* PDF and an archive), every file alone, and eleven files
FileLists ==
    LET some == {Uploads[1], Uploads[3], Uploads[13], Uploads[9], Uploads[11]}
    IN  UNION {[1..n -> some] : n \in 0..MaxFiles}
          \cup {<<f>> : f \in Range(Uploads)}
          \cup {[i \in 1..11 |-> Uploads[1]]}

\* a request reaches extract_view
InitView ==
    /\ call = "extract_view"
    /\ self = DocumentProcessingService_init
    /\ doc = [user_id |-> "guest", doc_id |-> ""]
    /\ \E method \in {"GET", "POST"}, job_text \in {"", "Python developer"},
          files \in FileLists :
            arg = [method |-> method, job_text |-> job_text, files |-> files]
    /\ param = PyNone
    /\ pc = "v_method"
    /\ text = <<>>
    /\ hist = <<>>
    /\ ret = PyNone
    /\ calls = 1
    /\ prev = PyNone

SpecView == InitView /\ [][NextView \/ NextUpload]_vars

\* ------------------------------------------------------------ remove_extraction_errors

\* the most lines of a text handed to remove_extraction_errors
MaxErrorLines == 3

\* the texts: up to MaxErrorLines lines, each a plain line, an empty line, a
\* marker in some letter case and with blanks around it, or a line that only
\* resembles a marker
ErrorTexts ==
    LET pool ==
          { <<"T","h","i","s"," ","i","s"," ","t","e","x","t",".">>,
            <<" "," ","M","o","r","e"," ","t","e","x","t","."," ">>,
            <<>>,
            <<"E","r","r","o","r",":"," ","f","a","i","l","e","d">>,
            <<" "," ","w","a","r","n","i","n","g",":"," ","l","o","w"," ","i","n","k">>,
            <<"[","E","R","R","O","R"," ","5","]">>,
            <<" ","[","W","a","r","n","i","n","g",":"," ","x","]"," ">>,
            <<"[","E","r","r","o","r","]"," ","t","a","i","l">>,
            <<"E","r","r","o","r","s",":"," ","n","o","n","e">> }
    IN  {Join(ls, <<"\n">>) : ls \in UNION {[1..n -> pool] : n \in 1..MaxErrorLines}}

\* the static method applied to a text
RemoveExtractionErrors ==
    /\ pc = "x_call"
    /\ ret' = PyStr(remove_extraction_errors(arg.v))
    /\ pc' = "done"
    /\ UNCHANGED <<call, self, doc, arg, param, text, hist, calls, prev>>

InitErrors ==
    /\ call = "remove_extraction_errors"
    /\ self = default
    /\ doc = NoDoc
    /\ arg \in {PyStr(t) : t \in ErrorTexts}
    /\ param = arg
    /\ pc = "x_call"
    /\ text = <<>>
    /\ hist = <<>>
    /\ ret = PyNone
    /\ calls = 1
    /\ prev = PyNone

SpecErrors == InitErrors /\ [][RemoveExtractionErrors]_vars

\* ------------------------------------------------------------ single stages

\* the most lines of a text handed to a single stage
MaxStageLines == 4

\* the texts handed to a stage called by itself: up to MaxStageLines lines.
\* For the education stage: lines with an institution and two, no or one
\* degree keyword, and a degree without institution.  For the name stage: a
\* name, a short line that is no name, a heading, a labelled name, running
\* text and a line with a contact placeholder.
StageTexts(method) ==
    LET pool ==
          IF method = "_anonymize_education"
          THEN { <<"P","h","D"," ","a","n","d"," ","M","a","s","t","e","r",","," ","T","e","c","h"," ","I","n","s","t","i","t","u","t","e">>,
                 <<"I","n","s","t","i","t","u","t","o"," ","d","e"," ","E","j","e","m","p","l","o">>,
                 <<"B","a","c","h","e","l","o","r"," ","o","f"," ","S","c","i","e","n","c","e",","," ","U","n","i","v","e","r","s","i","t","y"," ","o","f"," ","E","x","a","m","p","l","e">>,
                 <<"B","a","c","h","e","l","o","r"," ","o","f"," ","S","c","i","e","n","c","e">>,
                 <<"M","A","E","S","T","R","Í","A"," ","e","n"," ","l","a"," ","U","n","i","v","e","r","s","i","d","a","d">> }
          ELSE { <<"J","o","h","n"," ","D","o","e">>,
                 <<"B","a","c","h","e","l","o","r"," ","o","f"," ","S","c","i","e","n","c","e">>,
                 <<"S","k","i","l","l","s",":">>,
                 <<"N","a","m","e",":"," ","J","o","h","n"," ","D","o","e">>,
                 <<"L","e","d"," ","a"," ","t","e","a","m"," ","o","f"," ","t","e","n">>,
                 <<"C","o","n","t","a","c","t",":"," ","[","E","M","A","I","L","]">> }
    IN  {Join(ls, <<"\n">>) : ls \in UNION {[1..n -> pool] : n \in 1..MaxStageLines}}

\* _anonymize_education called by itself
StageEducation ==
    /\ pc = "s_call"
    /\ call = "_anonymize_education"
    /\ ret' = PyStr(_anonymize_education(arg.v))
    /\ pc' = "done"
    /\ UNCHANGED <<call, self, doc, arg, param, text, hist, calls, prev>>

\* _remove_personal_names called by itself
StageNames ==
    /\ pc = "s_call"
    /\ call = "_remove_personal_names"
    /\ ret' = PyStr(_remove_personal_names(arg.v))
    /\ pc' = "done"
    /\ UNCHANGED <<call, self, doc, arg, param, text, hist, calls, prev>>

InitStages ==
    /\ call \in {"_anonymize_education", "_remove_personal_names"}
    /\ self = process_normalizer
    /\ doc = NoDoc
    /\ arg \in {PyStr(t) : t \in StageTexts(call)}
    /\ param = arg
    /\ pc = "s_call"
    /\ text = <<>>
    /\ hist = <<>>
    /\ ret = PyNone
    /\ calls = 1
    /\ prev = PyNone

SpecStages == InitStages /\ [][StageEducation \/ StageNames]_vars

\* ------------------------------------------------------------ single passes

\* the redaction passes of anonymize, in the order of lines 56-78
Passes ==
    <<"_remove_emails", "_remove_phone_numbers", "_remove_urls", "_remove_social_media",
      "_remove_id_numbers", "_remove_addresses", "_remove_age_references",
      "_remove_gender_references", "_remove_marital_status", "_anonymize_education",
      "_remove_personal_names", "_cleanup_formatting">>

\* one pass on a text; found is what the phone library reports for it
Pass(method, t, found) ==
    CASE method = "_remove_emails" -> _remove_emails(t)
      [] method = "_remove_phone_numbers" -> phone_fallback(replace_found(found, t))
      [] method = "_remove_urls" -> _remove_urls(t)
      [] method = "_remove_social_media" -> _remove_social_media(t)
      [] method = "_remove_id_numbers" -> _remove_id_numbers(t)
      [] method = "_remove_addresses" -> _remove_addresses(t)
      [] method = "_remove_age_references" -> _remove_age_references(t)
      [] method = "_remove_gender_references" -> _remove_gender_references(t)
      [] method = "_remove_marital_status" -> _remove_marital_status(t)
      [] method = "_anonymize_education" -> _anonymize_education(t)
      [] method = "_remove_personal_names" -> _remove_personal_names(t)
      [] method = "_cleanup_formatting" -> _cleanup_formatting(t)

\* the most pieces a text handed to a pass is put together from
MaxPieces == 2

\* the pieces of the texts handed to each pass: what the pass looks for, in
\* the shapes its patterns tell apart, its own placeholder and plain text.
\* The digit groups of the phone pieces are too short for the phone library.
PassPieces(method) ==
    CASE method = "_remove_emails" ->
            { <<"a","@","b",".","c","o">>, <<"x","@","y",".","i","o",".">>, <<"[","E","M","A","I","L","]">>, <<"a","@","b">> }
      [] method = "_remove_phone_numbers" ->
            { <<"1","2","-","3","4","-","5","6">>, <<"P","y","t","h","o","n"," ","1","2","-","3","4","-","5","6">>, <<"[","P","H","O","N","E","]">>, <<"e","x","t"," ","1","2">> }
      [] method = "_remove_urls" ->
            { <<"h","t","t","p",":","/","/","x",".","i","o">>, <<"w","w","w",".","x",".","i","o">>, <<"[","U","R","L","]">>, <<"a","t">> }
      [] method = "_remove_social_media" ->
            { <<"@","u","s","e","r">>, <<"h","i">>, <<"a","@","b">>, <<"g","i","t","h","u","b",".","c","o","m","/","j","-","d","o","e">>, <<"[","S","O","C","I","A","L","]">> }
      [] method = "_remove_id_numbers" ->
            { <<"1","2","3","4","5","6","7","8","9">>, <<"A","B","1","2","3","4","5","6">>, <<"[","I","D","]">>, <<"1","2","3","4","5","6","7","8">> }
      [] method = "_remove_addresses" ->
            { <<"1","2","3"," ","M","a","i","n"," ","S","t","r","e","e","t">>, <<"4","5"," ","N","o","r","t","h"," ","O","a","k"," ","A","v","e">>, <<"9","0","2","1","0">>, <<"7"," ","M","a","i","n">>,
              <<"1","2","3","4","5","-","6","7","8","9"," ","S","t","r","e","e","t">>, <<"[","A","D","D","R","E","S","S","]">> }
      [] method = "_remove_age_references" ->
            { <<"3","0"," ","y","e","a","r","s"," ","o","l","d">>, <<"A","g","e",":"," ","3","0">>, <<"[","A","G","E","]">>, <<"b","o","r","n"," ","i","n"," ","1","9","9","0">> }
      [] method = "_remove_gender_references" ->
            { <<"G","e","n","d","e","r",":"," ","f","e","m","a","l","e">>, <<"s","e","x","o",":"," ","m">>, <<"m","a","l","e">>, <<":"," ","x">> }
      [] method = "_remove_marital_status" ->
            { <<"M","a","r","r","i","e","d">>, <<"m","a","r","i","t","a","l"," ","s","t","a","t","u","s",":"," ","s","i","n","g","l","e">>, <<"E","s","t","a","d","o"," ","c","i","v","i","l",":">>, <<"x">> }
      [] method = "_anonymize_education" ->
            { <<"P","h","D",","," ","T","e","c","h"," ","I","n","s","t","i","t","u","t","e">>, <<"I","n","s","t","i","t","u","t","o"," ","X">>, <<"B","a","c","h","e","l","o","r">>, <<"[","E","D","U","C","A","T","I","O","N","]">> }
      [] method = "_remove_personal_names" ->
            { <<"L","e","d"," ","a"," ","t","e","a","m"," ","o","f"," ","t","e","n","\n","L","e","d"," ","a"," ","t","e","a","m"," ","o","f"," ","t","e","n","\n","L","e","d"," ","a"," ","t","e","a","m"," ","o","f"," ","t","e","n">>,
              <<"N","a","m","e",":"," ","J","o","h","n"," ","D","o","e">>, <<"n","o","m","b","r","e",":"," ","J","o","s","é"," ","P","é","r","e","z">>, <<"M","y"," ","f","u","l","l"," ","n","a","m","e",":"," ","A","n","n"," ","L","e","e"," ","n","o","w">>,
              <<"[","N","A","M","E","]">> }
      [] method = "_cleanup_formatting" ->
            { <<"L","i","n","e","1"," "," "," ","\n","\n","\n","[","E","M","A","I","L","]"," "," ","\n","\n","L","i","n","e","2">>, <<"a","\n","[","E","M","A","I","L","]">>, <<"b">>, <<>>,
              <<"\n"," ","\t"," ","\n">>, <<"[","A","G","E","]"," "," ","x">> }

\* the texts handed to a pass: up to MaxPieces pieces, with a space or a
\* newline between one piece and the next
RECURSIVE Pieced(_, _)
Pieced(pool, n) ==
    IF n = 1 THEN pool
    ELSE {t \o sep \o p : t \in Pieced(pool, n - 1), sep \in {<<" ">>, <<"\n">>}, p \in pool}

PassTexts(method) == UNION {Pieced(PassPieces(method), n) : n \in 1..MaxPieces}

\* a pass called by itself on a text
PassCall ==
    /\ pc = "q_call"
    /\ \E found \in LibraryReports(param.v) :
          ret' = PyStr(Pass(call, param.v, found))
    /\ pc' = "done"
    /\ UNCHANGED <<call, self, doc, arg, param, text, hist, calls, prev>>

\* the same pass called on what it returned
PassAgain ==
    /\ pc = "done"
    /\ calls < MaxCalls
    /\ prev' = ret
    /\ param' = ret
    /\ calls' = calls + 1
    /\ pc' = "q_call"
    /\ UNCHANGED <<call, self, doc, arg, text, hist, ret>>

InitPasses ==
    /\ call \in Range(Passes)
    /\ self = process_normalizer
    /\ doc = NoDoc
    /\ arg \in {PyStr(t) : t \in PassTexts(call)}
    /\ param = arg
    /\ pc = "q_call"
    /\ text = <<>>
    /\ hist = <<>>
    /\ ret = PyNone
    /\ calls = 1
    /\ prev = PyNone

SpecPasses == InitPasses /\ [][PassCall \/ PassAgain]_vars


\* ------------------------------------------------------------ anonymize called again

\* texts handed to anonymize and then to anonymize again: personal data on
\* lines that the stages empty or that the cleanup removes, short lines after
\* them, and running text
RepeatTexts ==
    { <<"N","a","m","e",":"," ","A","n","n"," ","L","e","e","\n","E","m","a","i","l",":"," ","a","@","b",".","c","o","\n","G","e","n","d","e","r",":"," ","f","e","m","a","l","e","\n","M","a","r","r","i","e","d","\n","S","Q","L"," ","a","n","d"," ","J","a","v","a">>,
      <<"L","e","d"," ","a"," ","t","e","a","m"," ","o","f"," ","t","e","n","\n","J","u","a","n"," ","P","é","r","e","z","\n","L","e","d"," ","a"," ","t","e","a","m"," ","o","f"," ","t","e","n","\n","S","Q","L">>,
      <<"J","o","h","n"," ","D","o","e","\n","E","n","g","i","n","e","e","r","\n","B","o","g","o","t","á","\n","S","Q","L"," ","a","n","d"," ","J","a","v","a","\n","L","e","d"," ","a"," ","t","e","a","m"," ","o","f"," ","t","e","n">>,
      <<"L","e","d"," ","a"," ","t","e","a","m"," ","o","f"," ","t","e","n","\n","L","e","d"," ","a"," ","t","e","a","m"," ","o","f"," ","t","e","n","\n","L","e","d"," ","a"," ","t","e","a","m"," ","o","f"," ","t","e","n","\n","S","Q","L"," ","a","n","d"," ","J","a","v","a">>,
      <<"A","n","n"," ","L","e","e","\n","a","@","b",".","c","o","\n","M","a","r","r","i","e","d","\n","P","y","t","h","o","n"," ","d","e","v","e","l","o","p","e","r">> }

\* anonymize called on the text it returned
AnonymizeAgain ==
    /\ pc = "done"
    /\ call = "anonymize"
    /\ calls < MaxCalls
    /\ prev' = ret
    /\ param' = ret
    /\ calls' = calls + 1
    /\ pc' = "a_guard"
    /\ text' = <<>>
    /\ hist' = <<>>
    /\ UNCHANGED <<call, self, doc, arg, ret>>

InitAgain ==
    /\ call = "anonymize"
    /\ self = process_normalizer
    /\ doc = NoDoc
    /\ arg \in {PyStr(t) : t \in RepeatTexts}
    /\ param = arg
    /\ pc = "a_guard"
    /\ text = <<>>
    /\ hist = <<>>
    /\ ret = PyNone
    /\ calls = 1
    /\ prev = PyNone

SpecAgain == InitAgain /\ [][NextAnonymize \/ AnonymizeAgain]_vars


\* ------------------------------------------------------------ background model loading

\* In this part doc is the module ml.globals, self the local service of
\* load_and_train, pc the position of the training thread, arg the environment
\* of the process, call the view that serves the request in flight, param what
\* that view has looked up, ret its response, hist the statuses ml_status_view
\* has answered, calls the number of requests served and prev where the training
\* thread was when the last prediction was answered.

\* the most requests served while the model loads
MaxRequests == 3

\* an attribute the module does not have
NoAttr == [type |-> "no attribute", model |-> "None"]

\* None as the value of an attribute
NoneAttr == [type |-> "NoneType", model |-> "None"]

\* job_matching_service.py, __init__, lines 10-28: a service holds no model
JobMatchingService_init == [type |-> "JobMatchingService", model |-> "None"]

\* the module ml.globals when it is imported: job_matching_model is None or not
\* defined, ml_status is "training" or not defined
globals_init ==
    {[ml_status |-> s, job_matching_model |-> m] :
        s \in {"no attribute", "training"}, m \in {NoAttr, NoneAttr}}

\* views.py, line 8: getattr(g, "ml_status", "training")
getattr_ml_status(g) ==
    IF g.ml_status = "no attribute" THEN "training" ELSE g.ml_status

\* apps.py, lines 9-16, and ml_thread.py, lines 32-33: ready starts the thread
\* in the server process only
ready ==
    /\ pc = "t_ready"
    /\ pc' = IF arg.RUN_MAIN # "true" THEN "t_none" ELSE "t_8"
    /\ UNCHANGED <<call, self, doc, arg, param, text, hist, ret, calls, prev>>

\* load_and_train, line 8
TrainStatus ==
    /\ pc = "t_8"
    /\ doc' = [doc EXCEPT !.ml_status = "training"]
    /\ pc' = "t_9"
    /\ UNCHANGED <<call, self, arg, param, text, hist, ret, calls, prev>>

\* lines 9-12, and 29-30 when the constructor raises (the tokenizer cannot be
\* loaded, the directory cannot be made)
TrainService ==
    /\ pc = "t_9"
    /\ \/ /\ self' = JobMatchingService_init
          /\ pc' = "t_15"
       \/ /\ self' = self
          /\ pc' = "t_failed"
    /\ UNCHANGED <<call, doc, arg, param, text, hist, ret, calls, prev>>

\* lines 14-16, and 29-30 when a data file cannot be read
TrainData ==
    /\ pc = "t_15"
    /\ pc' \in {"t_19", "t_failed"}
    /\ UNCHANGED <<call, self, doc, arg, param, text, hist, ret, calls, prev>>

\* lines 18-23, and 29-30 when the call raises: the service comes back holding
\* its model, or the call raises (the class under job_matching_service.py
\* defines no load_or_train, so with that class the call raises AttributeError)
TrainLoad ==
    /\ pc = "t_19"
    /\ \/ /\ self' = [self EXCEPT !.model = "JobMatchingModel"]
          /\ pc' = "t_25"
       \/ /\ self' = self
          /\ pc' = "t_failed"
    /\ UNCHANGED <<call, doc, arg, param, text, hist, ret, calls, prev>>

\* line 25 left out
TrainPublish_skipped ==
    /\ pc = "t_25"
    /\ pc' = "t_26"
    /\ UNCHANGED <<call, self, doc, arg, param, text, hist, ret, calls, prev>>

\* line 25
TrainPublish ==
    /\ pc = "t_25"
    /\ doc' = [doc EXCEPT !.job_matching_model = self]
    /\ pc' = "t_26"
    /\ UNCHANGED <<call, self, arg, param, text, hist, ret, calls, prev>>

\* lines 26-27
TrainReady ==
    /\ pc = "t_26"
    /\ doc' = [doc EXCEPT !.ml_status = "ready"]
    /\ pc' = "t_end"
    /\ UNCHANGED <<call, self, arg, param, text, hist, ret, calls, prev>>

load_and_train ==
    \/ TrainStatus
    \/ TrainService
    \/ TrainData
    \/ TrainLoad
    \/ TrainPublish
    \/ TrainReady

\* views.py, lines 4-9: ml_status_view
ml_status_view ==
    /\ call = "none"
    /\ calls < MaxRequests
    /\ LET status == getattr_ml_status(doc)
       IN  /\ ret' = JsonResponse([status |-> status], 200)
           /\ hist' = Append(hist, status)
    /\ calls' = calls + 1
    /\ UNCHANGED <<call, self, doc, arg, param, pc, text, prev>>

\* a request to extract_view reaches line 61 with the text of a file
PredictRequest ==
    /\ call = "none"
    /\ calls < MaxRequests
    /\ call' = "extract_view"
    /\ param' = NoAttr
    /\ text' = "l_62"
    /\ UNCHANGED <<self, doc, arg, pc, hist, ret, calls, prev>>

\* api.py, lines 61-64: g.job_matching_model is looked up; without the
\* attribute the AttributeError is caught and answered
PredictLookup ==
    /\ call = "extract_view"
    /\ text = "l_62"
    /\ IF doc.job_matching_model = NoAttr
       THEN /\ ret' = JsonResponse([error |-> "Error during prediction"], 500)
            /\ call' = "none"
            /\ calls' = calls + 1
            /\ text' = "l_61"
            /\ param' = param
            /\ prev' = [at |-> pc]
       ELSE /\ param' = doc.job_matching_model
            /\ text' = "l_62 predict"
            /\ UNCHANGED <<call, ret, calls, prev>>
    /\ UNCHANGED <<self, doc, arg, pc, hist>>

\* api.py, lines 61-64, and job_matching_service.py, lines 128-140: predict is
\* called on what was looked up; None has no predict, a service without a
\* model raises ValueError, a model gives a score or raises, and every
\* exception is caught and answered
PredictCall ==
    /\ call = "extract_view"
    /\ text = "l_62 predict"
    /\ \/ /\ param.type = "JobMatchingService"
          /\ param.model # "None"
          /\ ret' = JsonResponse([prediction_scores |-> "score"], 200)
       \/ ret' = JsonResponse([error |-> "Error during prediction"], 500)
    /\ call' = "none"
    /\ calls' = calls + 1
    /\ text' = "l_61"
    /\ prev' = [at |-> pc]
    /\ UNCHANGED <<self, doc, arg, param, pc, hist>>

NextRequests ==
    \/ ml_status_view
    \/ PredictRequest
    \/ PredictLookup
    \/ PredictCall

\* the process starts: the module is imported, no thread runs, no request is
\* in flight
InitLoading ==
    /\ call = "none"
    /\ self = NoAttr
    /\ doc \in globals_init
    /\ arg \in {[RUN_MAIN |-> v] : v \in {"true", "unset"}}
    /\ param = NoAttr
    /\ pc = "t_ready"
    /\ text = "l_61"
    /\ hist = <<>>
    /\ ret = PyNone
    /\ calls = 0
    /\ prev = [at |-> "none"]

SpecLoading == InitLoading /\ [][ready \/ load_and_train \/ NextRequests]_vars


\* ------------------------------------------------------------ what the documents hold

Finished == pc = "done"

\* the text returned by the call
Output == ret.v

\* the lines of a text
LinesOf(t) == Split(t, "\n")

\* line (counted from 0) of the document at which the line under study stands
SubjectIndex == doc.pad

\* the e-mail addresses written in the documents
Addresses == { <<"a","@","b",".","c","o">>, Person[1].email, Person[2].email }

AddressesIn(t) == {a \in Addresses : Contains(t, a)}

\* the phone numbers written in the documents, and the digit groups of each
WrittenPhones ==
    { <<"5","5","5","-","1","2","3","-","4","5","6","7">>, <<"(","5","5","5",")"," ","1","2","3"," ","4","5","6","7">>, <<"5","5","5"," ","1","2","3"," ","4","5","6","7">>, <<"+","1"," ","(","5","5","5",")"," ","1","2","3","-","4","5","6","7">>,
      <<"3","0","0"," ","1","2","3"," ","4","5","6","7">> }

PhonesIn(t) == {p \in WrittenPhones : Contains(t, p)}

\* the maximal runs of digits of a text
DigitGroups(t) == {g \in Range(FindAll(Plus(Digit), t)) : TRUE}

\* the words of a line in the sense of \w+: maximal runs of word characters
WordRuns(line) == Range(FindAll(Plus(WordChar), line))

\* the words that keep the fallback phone pattern off a line
GuardWords == { <<"p","y","t","h","o","n">>, <<"a","w","s">>, <<"e","c","2">>, <<"m","i","c","r","o">>, <<"v","e","r","s","i","o","n">> }

HasGuardWord(line) == \E w \in WordRuns(line) : Lower(w) \in GuardWords

\* the text holds a run of digit groups of the shape of a phone number
\* followed by whitespace or the end of the line
LooksLikePhone(line) == Search(phone_regex, line)

\* ------------------------------------------------------------ claims

\* C1: every text that contains a well-formed e-mail address comes out of
\* anonymize with the token [EMAIL] in it and without the address, whatever
\* else stands on the line or on the lines around it.
C1_EmailBecomesPlaceholder ==
    (Finished /\ call = "anonymize" /\ AddressesIn(DocText(doc)) # {})
        => /\ Contains(Output, PLACEHOLDER_EMAIL)
           /\ AddressesIn(Output) = {}

\* C2: every text with a phone number written as grouped digits on a line
\* without a guard word has, after the phone stage and after anonymize,
\* the token [PHONE] and none of the digit groups of the number, whatever
\* character follows the number.
C2_PhoneBecomesPlaceholder ==
    \A out \in ({hist[k] : k \in DOMAIN hist \cap {"phones"}}
                   \cup (IF Finished /\ call = "anonymize" THEN {Output} ELSE {})) :
        \A p \in PhonesIn(DocText(doc)) :
            /\ Contains(out, PLACEHOLDER_PHONE)
            /\ DigitGroups(out) \cap DigitGroups(p) = {}

\* C3: the fallback phone pattern works line by line; a line with one of the
\* words python, aws, ec2, micro, version as a whole word, in any letter
\* case, is left as it was, and every other line is still scanned: a digit
\* run of the shape of a phone number on it is replaced.
C3_GuardedLinesUntouched ==
    "phones" \in DOMAIN hist =>
        LET before == LinesOf(hist["phone_matcher"])
            after == LinesOf(hist["phones"])
        IN  /\ Len(after) = Len(before)
            /\ \A i \in 1..Len(before) :
                  IF HasGuardWord(before[i]) THEN after[i] = before[i]
                  ELSE /\ ~LooksLikePhone(after[i])
                       /\ LooksLikePhone(before[i])
                            => Contains(after[i], PLACEHOLDER_PHONE)

\* C3 witness: a guarded line with a phone-shaped digit run kept next to an
\* unguarded line whose number was replaced
C3_Witness ==
    /\ "phones" \in DOMAIN hist
    /\ doc.kind = "lines"
    /\ \E i, j \in 1..Len(LinesOf(hist["phones"])) :
          /\ HasGuardWord(LinesOf(hist["phones"])[i])
          /\ LooksLikePhone(LinesOf(hist["phones"])[i])
          /\ LinesOf(hist["phones"])[j] = <<"C","a","l","l"," ","[","P","H","O","N","E","]">>

C8_EmailLineKept ==
    (/\ Finished
     /\ call = "anonymize"
     /\ doc.kind = "lines"
     /\ SubjectIndex < 3
     /\ AddressesIn(Subjects[doc.subject]) # {}
     /\ Len(Words(Subjects[doc.subject])) <= 4)
        => \E i \in 1..Len(LinesOf(Output)) :
              LinesOf(Output)[i] = _remove_emails(Subjects[doc.subject])

\* C10: a year range on a line after the third line, with nothing to redact
\* and no guard word on it, is in the result as it was written.
YearRanges == { <<"2","0","1","5","-","2","0","1","9">>, <<"2","0","1","5"," ","-"," ","2","0","1","9">> }

C10_YearRangeKept ==
    (/\ Finished
     /\ call = "anonymize"
     /\ doc.kind = "lines"
     /\ SubjectIndex >= 3)
        => \A y \in YearRanges : Contains(Subjects[doc.subject], y) => Contains(Output, y)

\* the argument is the empty string or no string at all
InvalidArgument == arg.type # "str" \/ arg.v = <<>>

\* C4: anonymize and normalize return the empty string for every empty
\* argument and every argument that is no string (None, numbers, lists), and
\* raise nothing: the call ends, at its first statement, with "".
C4_InvalidGivesEmpty ==
    (call \in {"anonymize", "normalize"} /\ InvalidArgument) =>
        /\ pc \in {"a_guard", "n_guard", "done"}
        /\ Finished => ret = PyStr(<<>>)

\* C4 witness: a call on a non-empty list has returned ""
C4_Witness ==
    /\ Finished
    /\ call \in {"anonymize", "normalize"}
    /\ arg = PyList(<<"a">>)
    /\ ret = PyStr(<<>>)

\* C5: process never raises; for every invalid argument (the empty string,
\* None, or a non-empty value that is no string) it returns the record with
\* anonymized_text '' and the three numbers 0.
C5_ProcessNeverRaises ==
    call = "process" =>
        /\ pc # "raised"
        /\ (Finished /\ InvalidArgument) => ret = ProcessResult(<<>>, 0, 0, 0)

\* C6: normalize is idempotent under every configuration: applied to its own
\* result with the same flags it returns that result.
C6_NormalizeIdempotent ==
    (call = "normalize" /\ Finished /\ calls = 2) => ret = prev

\* the degree keywords and institution names written in the documents
DegreeLines ==
    { [line |-> <<"B","a","c","h","e","l","o","r"," ","o","f"," ","S","c","i","e","n","c","e",","," ","U","n","i","v","e","r","s","i","t","y"," ","o","f"," ","E","x","a","m","p","l","e">>,
       degree |-> <<"B","a","c","h","e","l","o","r">>, institution |-> <<"U","n","i","v","e","r","s","i","t","y"," ","o","f"," ","E","x","a","m","p","l","e">>] }

\* C9: the degree level survives the pipeline: for a text with a line that
\* names a degree and an institution, at whatever line of the document,
\* process returns a text with the title-cased degree keyword and without
\* the institution name.
C9_DegreeSurvives ==
    (call = "process" /\ Finished /\ doc.kind = "lines") =>
        \A d \in DegreeLines :
            Subjects[doc.subject] = d.line =>
                /\ Contains(ret.anonymized_text, d.degree)
                /\ ~Contains(ret.anonymized_text, d.institution)

\* the runs of newlines of a text, in order, and the pieces between them
NewlineRuns(t) == FindAll(Plus({"\n"}), t)

Pieces(t) == FindAll(NotRun({"\n"}, 1, 0, TRUE, FALSE), t)

\* the limit normalize applies: max_consecutive_newlines, and 1 below 1
NewlineLimit == Max({self.max_consecutive_newlines, 1})

\* C11: the capping step of normalize, with N = max(max_consecutive_newlines, 1),
\* collapses every run of more than N newlines to exactly N, leaves every run
\* of at most N newlines at its length and touches nothing else; the text
\* normalize returns never has more than N newlines in a row.
C11_NewlinesCapped ==
    /\ (call = "normalize" /\ "n_newlines" \in DOMAIN hist) =>
            LET before == hist["n_lower"]
                after == hist["n_newlines"]
            IN  /\ Len(NewlineRuns(after)) = Len(NewlineRuns(before))
                /\ \A k \in 1..Len(NewlineRuns(before)) :
                        Len(NewlineRuns(after)[k]) =
                            Min({Len(NewlineRuns(before)[k]), NewlineLimit})
                /\ Pieces(after) = Pieces(before)
                /\ (after = <<>>) = (before = <<>>)
                /\ after # <<>> => (after[1] = "\n") = (before[1] = "\n")
    /\ (call = "normalize" /\ Finished /\ IsStr(arg)) =>
            \A k \in 1..Len(NewlineRuns(Output)) :
                Len(NewlineRuns(Output)[k]) <= NewlineLimit

\* a limit of 0 applied to a text with a run of one newline, which stays, and
\* a run of four, which is cut to one
C11_Witness ==
    /\ call = "normalize" /\ Finished
    /\ self.max_consecutive_newlines = 0
    /\ "n_lower" \in DOMAIN hist
    /\ hist["n_lower"] = <<"a","\n","b","\n","\n","\n","\n","c","\n","\n","d">>
    /\ Output = <<"a","\n","b","\n","c","\n","d">>

\* the characters the aggressive preset lets through
AggressiveAlphabet == AsciiLower \cup Digit \cup {" ", ".", ",", "-", "'", "\n"}

FailsBeforeExtraction(f) ==
    \/ ~Present(f)
    \/ ~f.readable
    \/ f.size > DocumentProcessingService_init.max_file_size
    \/ f.size = 0
    \/ _get_file_extension(f.name) \notin DocumentProcessingService_init.supported_extensions

\* C14: process_uploaded_file reports every failure as a returned value and
\* stops at the first failing step: a file that fails before extraction gives
\* success=False with status_code 400 and neither the extractor nor the
\* normalizer is invoked; an extraction result with 'error' gives 500 and the
\* normalizer is not invoked; an exception of the normalizer gives 500; in
\* every other case the result is success=True with status_code 200 and
\* data.extracted_text is the normalized text.
C14_FailuresReturned ==
    call = "process_uploaded_file" =>
        /\ pc # "raised"
        /\ Finished =>
              IF FailsBeforeExtraction(arg)
              THEN /\ ~ret.success /\ ret.status_code = 400
                   /\ "extract_text" \notin DOMAIN hist
                   /\ "raw_text" \notin DOMAIN hist
              ELSE IF "error" \in DOMAIN hist["extract_text"]
              THEN /\ ~ret.success /\ ret.status_code = 500
                   /\ "raw_text" \notin DOMAIN hist
              ELSE IF ~IsStr(Fresh("anonymize_cv_for_bert", hist["raw_text"]))
              THEN ~ret.success /\ ret.status_code = 500
              ELSE /\ ret.success /\ ret.status_code = 200
                   /\ ret.data.extracted_text =
                          Fresh("anonymize_cv_for_bert", hist["raw_text"])

\* the text extract_view gets for a file that passes every step
TextOf(f) ==
    LET good == {r \in extract_text(f, [doc_id |-> ""], _get_file_extension(f.name)) :
                    "error" \notin DOMAIN r}
    IN  Fresh("anonymize_cv_for_bert", (CHOOSE r \in good : TRUE).extracted_text).v

\* C15: extract_view answers with the status codes its documentation lists:
\* 405 for a request that is no POST; 400 for a request without job_text,
\* without files or with more than 10 files, and when a file cannot be read;
\* 500 when the extractor reports an error and when the prediction fails; 200
\* when every file went through, and then extracted_texts and
\* prediction_scores hold one entry per uploaded file, in upload order.
C15_StatusCodes ==
    (call = "extract_view" /\ Finished) =>
        IF arg.method # "POST" THEN ret.status = 405
        ELSE IF arg.job_text = "" \/ arg.files = <<>> \/ Len(arg.files) > 10
        THEN ret.status = 400
        ELSE IF calls > Len(arg.files)
        THEN /\ ret.status = 200
             /\ Len(ret.body.extracted_texts) = Len(arg.files)
             /\ Len(ret.body.prediction_scores) = Len(arg.files)
             /\ \A k \in 1..Len(arg.files) :
                    ret.body.extracted_texts[k] = TextOf(arg.files[k])
        ELSE /\ ret.status \in {400, 500}
             /\ (Present(arg.files[calls]) /\ ~arg.files[calls].readable) => ret.status = 400
             /\ ("extract_text" \in DOMAIN hist /\ "error" \in DOMAIN hist["extract_text"])
                    => ret.status = 500
             /\ pc = "done" /\ "error" \in DOMAIN ret.body
                  /\ ret.body.error = "Error during prediction" => ret.status = 500

\* a line that is a marker: trimmed and in lower case it starts with 'error:'
\* or 'warning:', or starts with '[error' or '[warning' and ends with ']'
IsMarker(line) ==
    LET l == Lower(Strip(line))
    IN  \/ StartsAt(l, <<"e","r","r","o","r",":">>, 1)
        \/ StartsAt(l, <<"w","a","r","n","i","n","g",":">>, 1)
        \/ /\ StartsAt(l, <<"[","e","r","r","o","r">>, 1) \/ StartsAt(l, <<"[","w","a","r","n","i","n","g">>, 1)
           /\ l[Len(l)] = "]"

\* C16: remove_extraction_errors removes every line that, trimmed, starts with
\* 'Error:' or 'Warning:' or is a bracket-wrapped '[Error...]' / '[Warning...]'
\* line, in any letter case, and keeps every other line that is not blank, in
\* order and trimmed; the result has no three newlines in a row and no
\* whitespace at either end.
C16_ErrorLinesRemoved ==
    (call = "remove_extraction_errors" /\ Finished) =>
        LET kept == SelectSeq(LinesOf(arg.v),
                              LAMBDA line : ~IsMarker(line) /\ Strip(line) # <<>>)
        IN  /\ SelectSeq(LinesOf(Output), LAMBDA line : line # <<>>)
                  = [k \in 1..Len(kept) |-> Strip(kept[k])]
            /\ \A k \in 1..Len(LinesOf(Output)) : ~IsMarker(LinesOf(Output)[k])
            /\ ~Contains(Output, <<"\n", "\n", "\n">>)
            /\ Output = Strip(Output)

\* a marker in lower case with blanks around it stood between two lines that
\* are kept
C16_Witness ==
    /\ call = "remove_extraction_errors" /\ Finished
    /\ arg.v = <<" "," ","M","o","r","e"," ","t","e","x","t","."," ","\n"," "," ","w","a","r","n","i","n","g",":"," ","l","o","w"," ","i","n","k","\n","[","E","r","r","o","r","]"," ","t","a","i","l">>
    /\ Output = <<"M","o","r","e"," ","t","e","x","t",".","\n","[","E","r","r","o","r","]"," ","t","a","i","l">>

\* the redaction stages 1 to 11 in the order of anonymize, by the name under
\* which hist keeps the text after each, and the placeholders they insert
RedactionStages ==
    <<"emails", "phones", "urls", "social", "ids", "addresses", "age", "gender",
      "marital", "education", "names">>

InsertedPlaceholders ==
    {PLACEHOLDER_EMAIL, PLACEHOLDER_PHONE, PLACEHOLDER_URL, PLACEHOLDER_SOCIAL,
     PLACEHOLDER_ID, PLACEHOLDER_ADDRESS, PLACEHOLDER_AGE, PLACEHOLDER_EDUCATION}

\* C17: no redaction stage alters or removes a placeholder an earlier stage
\* inserted: for stages i < j among stages 1 to 11, a placeholder token that
\* is in the text after stage i is in the text after stage j.
C17_PlaceholdersSurvive ==
    call = "anonymize" =>
        \A i, j \in 1..Len(RedactionStages) :
            (i < j /\ RedactionStages[j] \in DOMAIN hist) =>
                \A token \in InsertedPlaceholders :
                    Contains(hist[RedactionStages[i]], token)
                        => Contains(hist[RedactionStages[j]], token)

\* the degree keywords as they are written in a result, in the order of the list
DegreeTitles ==
    << <<"B","a","c","h","e","l","o","r">>,
       <<"M","a","s","t","e","r">>,
       <<"P","h","d">>,
       <<"D","o","c","t","o","r","a","t","e">>,
       <<"L","i","c","e","n","c","i","a","t","u","r","a">>,
       <<"M","a","e","s","t","r","í","a">>,
       <<"D","o","c","t","o","r","a","d","o">>,
       <<"I","n","g","e","n","i","e","r","í","a">>,
       <<"E","n","g","i","n","e","e","r","i","n","g">> >>

\* what the education stage makes of a line, by the three cases of the claim
EducationOf(line) ==
    LET hits == SelectSeq(DegreeTitles, LAMBDA d : Contains(Lower(line), Lower(d)))
    IN  IF ~\E keyword \in university_keywords : Contains(Lower(line), keyword) THEN line
        ELSE IF hits = <<>> THEN PLACEHOLDER_EDUCATION
        ELSE Join(hits, <<" ">>)

\* C18: the education stage works line by line: a line without institution
\* keyword is returned unchanged; a line with an institution keyword and
\* degree keywords is replaced as a whole by the title-cased degree keywords
\* it contains, each once, in the order of the keyword list, joined by single
\* spaces; a line with an institution keyword and no degree keyword is
\* replaced by exactly [EDUCATION]; the number of lines is unchanged.
C18_EducationLineByLine ==
    (call = "_anonymize_education" /\ Finished) =>
        /\ Len(LinesOf(Output)) = Len(LinesOf(arg.v))
        /\ \A k \in 1..Len(LinesOf(arg.v)) :
              LinesOf(Output)[k] = EducationOf(LinesOf(arg.v)[k])

\* a line with an institution and two degree keywords out of the order of the
\* list, a degree without institution and an institution without degree
C18_Witness ==
    /\ call = "_anonymize_education" /\ Finished
    /\ arg.v = <<"P","h","D"," ","a","n","d"," ","M","a","s","t","e","r",","," ","T","e","c","h"," ","I","n","s","t","i","t","u","t","e","\n","B","a","c","h","e","l","o","r"," ","o","f"," ","S","c","i","e","n","c","e","\n","I","n","s","t","i","t","u","t","o"," ","d","e"," ","E","j","e","m","p","l","o">>
    /\ Output = <<"M","a","s","t","e","r"," ","P","h","d","\n","B","a","c","h","e","l","o","r"," ","o","f"," ","S","c","i","e","n","c","e","\n","[","E","D","U","C","A","T","I","O","N","]">>

\* the line holds the word summary, profile or skills in some letter case,
\* with or without punctuation next to it
HasHeadingWord(line) ==
    \E w \in WordRuns(line) :
        Lower(w) \in {<<"s","u","m","m","a","r","y">>, <<"p","r","o","f","i","l","e">>, <<"s","k","i","l","l","s">>}

\* C19: the name stage replaces a whole line by [NAME] exactly when the line
\* is one of the first three lines, holds no [EMAIL], [PHONE], [SOCIAL] or
\* [URL], has at most 4 words and does not hold the word summary, profile or
\* skills in any letter case, punctuation or not ('Skills:', 'Professional
\* Summary:'); no line from the fourth line on is replaced as a whole.
C19_NameLineRule ==
    (call = "_remove_personal_names" /\ Finished) =>
        /\ Len(LinesOf(Output)) = Len(LinesOf(arg.v))
        /\ \A k \in 1..Len(LinesOf(arg.v)) :
              LET line == LinesOf(arg.v)[k]
              IN  (LinesOf(Output)[k] = PLACEHOLDER_NAME)
                    <=> /\ k <= 3
                        /\ ~\E token \in {PLACEHOLDER_EMAIL, PLACEHOLDER_PHONE,
                                            PLACEHOLDER_SOCIAL, PLACEHOLDER_URL} :
                               Contains(line, token)
                        /\ Len(Words(line)) <= 4
                        /\ ~HasHeadingWord(line)

\* C20: _remove_personal_names replaces the line of the name by [NAME] and
\* leaves what is no name as it is: where the line 'Bachelor of Science'
\* stands before the line 'John Doe' within the first three lines, the
\* result still has 'Bachelor of Science' on its line, and [NAME] on the line
\* of the name.
C20_NonNameLineKept ==
    (call = "_remove_personal_names" /\ Finished) =>
        \A k, j \in 1..Len(LinesOf(arg.v)) :
            (/\ k < j /\ j <= 3
             /\ LinesOf(arg.v)[k] = <<"B","a","c","h","e","l","o","r"," ","o","f"," ","S","c","i","e","n","c","e">>
             /\ LinesOf(arg.v)[j] = <<"J","o","h","n"," ","D","o","e">>)
                => /\ LinesOf(Output)[k] = <<"B","a","c","h","e","l","o","r"," ","o","f"," ","S","c","i","e","n","c","e">>
                   /\ LinesOf(Output)[j] = PLACEHOLDER_NAME


\* a label name: or nombre: followed by one or more capitalized words: an
\* upper-case letter and lower-case letters after it, accented ones included
LabelledName ==
    Cat(<<WordB, Alt(<<StrI(<<"n","a","m","e">>), StrI(<<"n","o","m","b","r","e">>)>>), Cls({":"}), Star({" ", "\t"}),
          Cls(Range(UpperSeq)), Plus(Range(LowerSeq)),
          StarOf(Cat(<<Plus({" ", "\t"}), Cls(Range(UpperSeq)), Plus(Range(LowerSeq))>>))>>)

\* C21: labelled names are redacted wherever they stand: on every line, at
\* any line index, a label name: or nombre: followed by one or more
\* capitalized words (accented ones included) is replaced by [NAME], and what
\* follows the label without being capitalized words stays; a line among the
\* first three may instead be replaced as a whole.
C21_LabelledNamesRedacted ==
    (call = "_remove_personal_names" /\ pc = "done" /\ calls = 1) =>
        \A k \in 1..Len(LinesOf(arg.v)) :
            LET line == LinesOf(arg.v)[k]
            IN  Search(LabelledName, line) =>
                    \/ LinesOf(Output)[k] = Sub(LabelledName, PLACEHOLDER_NAME, line)
                    \/ k <= 3 /\ LinesOf(Output)[k] = PLACEHOLDER_NAME


\* 'http://' or 'https://' followed by non-whitespace characters
BareUrl ==
    Cat(<<Str(<<"h","t","t","p">>), Opt({"s"}), Str(<<":","/","/">>), NotRun(Space, 1, 0, TRUE, FALSE)>>)

\* C22: the URL-removal step of TextNormalizer changes only the URL itself:
\* each 'http://' or 'https://' followed by non-whitespace characters becomes
\* one space and the text is trimmed at its ends; every other character is
\* kept, the newlines before and after a URL too, so the text has as many
\* lines after the step as before it, less the lines trimmed at its ends.
C22_OnlyUrlChanged ==
    (call = "normalize" /\ "n_urls" \in DOMAIN hist /\ self.remove_urls) =>
        /\ hist["n_urls"] = Strip(Sub(BareUrl, <<" ">>, hist["n_line_breaks"]))
        /\ Len(LinesOf(hist["n_urls"])) = Len(LinesOf(Strip(hist["n_line_breaks"])))


\* the placeholder a pass inserts; the gender and the marital pass insert none
OwnPlaceholder(method) ==
    CASE method = "_remove_emails" -> PLACEHOLDER_EMAIL
      [] method = "_remove_phone_numbers" -> PLACEHOLDER_PHONE
      [] method = "_remove_urls" -> PLACEHOLDER_URL
      [] method = "_remove_social_media" -> PLACEHOLDER_SOCIAL
      [] method = "_remove_id_numbers" -> PLACEHOLDER_ID
      [] method = "_remove_addresses" -> PLACEHOLDER_ADDRESS
      [] method = "_remove_age_references" -> PLACEHOLDER_AGE
      [] method = "_anonymize_education" -> PLACEHOLDER_EDUCATION
      [] method = "_remove_personal_names" -> PLACEHOLDER_NAME
      [] OTHER -> <<>>

\* the text is made of the placeholder of the pass and whitespace, nothing else
OnlyOwnPlaceholder(method, t) ==
    /\ OwnPlaceholder(method) # <<>>
    /\ Contains(t, OwnPlaceholder(method))
    /\ Range(Sub(Str(OwnPlaceholder(method)), <<>>, t)) \subseteq Space

\* the redaction passes: all but the cleanup of the formatting
RedactionPasses == Range(Passes) \ {"_cleanup_formatting"}

\* C23: every redaction stage s is idempotent, s(s(t)) = s(t) for every text
\* t; a stage never matches the placeholder it inserts itself, so that a text
\* that contains only that placeholder is returned unchanged.
C23_PassesIdempotent ==
    (call \in RedactionPasses /\ pc = "done") =>
        /\ calls >= 2 => ret = prev
        /\ (calls = 1 /\ OnlyOwnPlaceholder(call, arg.v)) => ret = arg

\* C23 as amended: every redaction stage other than the address stage and
\* the name stage is idempotent, and every stage other than the name stage
\* returns a text that contains only its own placeholder unchanged.
C23_OtherPassesIdempotent ==
    (call \in RedactionPasses /\ pc = "done") =>
        /\ (calls >= 2 /\ call \notin {"_remove_addresses", "_remove_personal_names"})
              => ret = prev
        /\ (calls = 1 /\ OnlyOwnPlaceholder(call, arg.v)
              /\ call # "_remove_personal_names") => ret = arg

\* the e-mail stage applied twice to a text with two addresses
C23_Witness ==
    /\ call = "_remove_emails"
    /\ pc = "done"
    /\ calls = 2
    /\ arg.v = <<"a","@","b",".","c","o"," ","x","@","y",".","i","o",".">>
    /\ prev.v = <<"[","E","M","A","I","L","]"," ","[","E","M","A","I","L","]",".">>
    /\ ret = prev


\* C24: _cleanup_formatting removes redundant spaces and newlines while
\* placeholders remain intact: every bracketed placeholder token that is in
\* its input, also one that stands alone on a line, is in its output.
C24_CleanupKeepsPlaceholders ==
    (call = "_cleanup_formatting" /\ pc = "done" /\ calls = 1) =>
        \A token \in InsertedPlaceholders \cup {PLACEHOLDER_NAME} :
            Contains(arg.v, token) => Contains(Output, token)

\* the runs of two or more spaces or tabs, and of three or more newlines
WideGap == Alt(<<AtLeast({" ", "\t"}, 2), AtLeast({"\n"}, 3)>>)

\* C25: after _cleanup_formatting the text holds no run of two or more spaces
\* or tabs and no run of three or more newlines, whatever the input, also
\* when the lines between the newlines held only spaces or only a placeholder.
C25_NoWideGaps ==
    (call = "_cleanup_formatting" /\ pc = "done") => ~Search(WideGap, Output)

\* the cleanup of a text with a wide run of spaces, a run of three newlines
\* and a placeholder alone on its line, then of a line holding only spaces
C25_Witness ==
    /\ call = "_cleanup_formatting"
    /\ pc = "done"
    /\ calls = 1
    /\ arg.v = <<"L","i","n","e","1"," "," "," ","\n","\n","\n","[","E","M","A","I","L","]"," "," ","\n","\n","L","i","n","e","2">> \o <<"\n">> \o <<"\n"," ","\t"," ","\n">>
    /\ Search(WideGap, arg.v)
    /\ Output = <<"L","i","n","e","1"," ","\n","L","i","n","e","2","\n","\n">>


\* a street address: a house number, one or more capitalized words and a
\* street-type keyword
StreetAddress ==
    Cat(<<WordB, Plus(Digit),
          Rep(Cat(<<Plus(Space), Cls(AsciiUpper), Plus(AsciiLower)>>), 1, 3),
          Plus(Space),
          Alt(<<StrI(<<"S","t","r","e","e","t">>), StrI(<<"S","t">>), StrI(<<"A","v","e","n","u","e">>), StrI(<<"A","v","e">>), StrI(<<"R","o","a","d">>),
                StrI(<<"R","d">>), StrI(<<"B","o","u","l","e","v","a","r","d">>), StrI(<<"B","l","v","d">>), StrI(<<"C","a","l","l","e">>),
                StrI(<<"A","v","e","n","i","d","a">>), StrI(<<"C","a","r","r","e","r","a">>)>>),
          WordB>>)

\* a standalone ZIP code of 5 or of 5+4 digits
ZipCode ==
    Cat(<<WordB, Between(Digit, 5, 5), OptOf(Cat(<<Cls({"-"}), Between(Digit, 4, 4)>>)), WordB>>)

\* C26: the address stage replaces every street address (house number, one
\* or more capitalized words, street-type keyword) by [ADDRESS] and deletes
\* every standalone ZIP code: after the stage the text holds neither a street
\* address nor a ZIP code, and it holds [ADDRESS] where it held an address.
C26_AddressesRemoved ==
    (call = "_remove_addresses" /\ pc = "done" /\ calls = 1) =>
        /\ ~Search(StreetAddress, Output)
        /\ ~Search(ZipCode, Output)
        /\ Search(StreetAddress, arg.v) => Contains(Output, PLACEHOLDER_ADDRESS)


\* the tokens of a text: what stands between whitespace or the ends of lines
Tokens(t) == Range(Words(t))

\* a token that is a handle: @ and word characters after it
IsHandle(w) == Len(w) >= 2 /\ w[1] = "@" /\ \A i \in 2..Len(w) : w[i] \in WordChar

\* the paths of the social networks
SocialPath ==
    Alt(<<Cat(<<StrI(<<"l","i","n","k","e","d","i","n",".","c","o","m","/","i","n","/">>), Plus(WordChar \cup {"-"})>>),
          Cat(<<StrI(<<"g","i","t","h","u","b",".","c","o","m","/">>), Plus(WordChar \cup {"-"})>>),
          Cat(<<StrI(<<"t","w","i","t","t","e","r",".","c","o","m","/">>), Plus(WordChar \cup {"-"})>>)>>)

\* C27: the social-media stage replaces by [SOCIAL] every standalone @handle
\* token that has whitespace or the start or end of a line on both sides, a
\* handle that is the first token of the text included, and every
\* linkedin.com/in/, github.com/ and twitter.com/ path; it never replaces an
\* @ that stands inside another token.
C27_HandlesReplaced ==
    (call = "_remove_social_media" /\ pc = "done" /\ calls = 1) =>
        /\ \A w \in Tokens(Output) : ~IsHandle(w)
        /\ ~Search(SocialPath, Output)
        /\ \A w \in Tokens(arg.v) :
              (Contains(w, <<"@">>) /\ ~IsHandle(w)) => w \in Tokens(Output)


\* the bare digit sequences of 9 or more digits of a text
LongDigitGroups(t) == {g \in DigitGroups(t) : Len(g) >= 9}

\* C28: in the full pipeline every bare digit sequence of 9 or more digits of
\* the input is replaced by [ID]: it reaches the ID stage untouched by the
\* stages before it, the ID stage puts [ID] in its place, it is given no
\* other placeholder such as [PHONE] and no part of it is in the output.
C28_LongDigitsBecomeId ==
    (call = "anonymize" /\ "ids" \in DOMAIN hist /\ doc.kind = "lines") =>
        \A g \in LongDigitGroups(hist["input"]) :
            /\ Contains(hist["social"], g)
            /\ ~Contains(hist["ids"], g)
            /\ Contains(LinesOf(hist["ids"])[SubjectIndex + 1], PLACEHOLDER_ID)
            /\ ~Contains(LinesOf(hist["ids"])[SubjectIndex + 1], PLACEHOLDER_PHONE)


\* C29: the full pipeline is idempotent, anonymize(anonymize(t)) =
\* anonymize(t): anonymize run again on the text it returned, whose lines may
\* have moved up where the cleanup removed lines, replaces no further line by
\* [NAME] and removes no further content.
C29_AnonymizeIdempotent ==
    (call = "anonymize" /\ pc = "done" /\ calls >= 2) => ret = prev


\* the service load_and_train publishes: a JobMatchingService holding its model
TrainedService == [type |-> "JobMatchingService", model |-> "JobMatchingModel"]

\* "ready" is set only once the trained service is in job_matching_model
ReadyHasModel ==
    doc.ml_status = "ready" => doc.job_matching_model = TrainedService

\* the status, as ml_status_view reads it, changes only from "training" to
\* "ready"
StatusForward ==
    getattr_ml_status(doc') # getattr_ml_status(doc)
        => getattr_ml_status(doc) = "training" /\ getattr_ml_status(doc') = "ready"

\* no request is answered "training" after one was answered "ready"
AnswersForward ==
    \A i \in 1..Len(hist) : \A j \in i..Len(hist) :
        hist[i] = "ready" => hist[j] = "ready"

\* once load_and_train has ended with an exception, it stays ended and the
\* status stays "training"
FailedStays ==
    pc = "t_failed" => pc' = "t_failed" /\ getattr_ml_status(doc') = "training"

\* a prediction answered after load_and_train has ended with an exception is
\* answered with status 500
FailedPrediction ==
    pc = "t_failed" /\ call = "extract_view" /\ call' = "none"
        => ret' = JsonResponse([error |-> "Error during prediction"], 500)

=============================================================================
